---- MODULE Spec2Model ----
(***************************************************************************)
(* Model of the window / presentation state machine of the Wayland video   *)
(* sink library (gst-libs/gst/wayland/gstwlwindow.c).                      *)
(*                                                                         *)
(* Three threads act on one window:                                        *)
(*   S  the streaming thread, calling gst_wl_window_render();              *)
(*   D  the display dispatch thread, running commit_callback,              *)
(*      frame_redraw_callback and handle_xdg_surface_configure;            *)
(*   G  the application thread: it runs gst_wl_window_new_toplevel's       *)
(*      configure handshake, later the geometry setters, and finally drops *)
(*      the last reference (gst_wl_window_finalize).                       *)
(* A handler is split into several actions only where the code releases a  *)
(* lock or touches a shared field without the lock that protects it, so    *)
(* that every interleaving the locking admits is a behaviour of the model. *)
(***************************************************************************)
EXTENDS Integers, Sequences, FiniteSets, TLC

\* ------------------------------------------------------------------ bounds
MaxRenders == 3
MaxRect == 1
MaxRelBufs == 2
MaxAttach == 3
MaxFence == 2
MaxCrop == 2
MaxScale == 3
\* border buffers attached by geometry updates on a display without the
\* viewporter
MaxBorder == 3

\* a null GstWlBuffer / GstVideoInfo pointer
NULL == 0

Calls == 1..MaxRenders
\* render rectangles by number; 0 is the all-zero rectangle of a new window
Rects == 0..MaxRect
\* <<buffer given, video info given>>: the sink passes a buffer with or
\* without a new video info, or clears the window with render (NULL, NULL)
\* (ext/wayland/gstwaylandsink.c lines 480 and 808)
RenderArgs == {<<TRUE, TRUE>>, <<TRUE, FALSE>>, <<FALSE, FALSE>>}
\* presented-buffer wrappers that take part in explicit synchronisation
RelBufs == 1..MaxRelBufs
\* fence file descriptors a fenced_release event can carry
Fences == 0..MaxFence
\* src_width of a window without a source crop
SrcWidthUnset == -1
\* crop rectangles <<x, y, width, height>> of a GstVideoCropMeta; they lie
\* inside the frame, so every value fits the gint fields they are stored in
CropRects == (0..MaxCrop) \X (0..MaxCrop) \X (0..MaxCrop) \X (0..MaxCrop)

VARIABLES
  \* GstWlWindowPrivate
  configured, redraw_pending, next_buffer, staged_buffer, next_video_info,
  clear_window, is_area_surface_mapped, render_rectangle, scaled_width,
  commit_lock,
  \* the thread inside a window_lock section, "none" between sections
  window_lock,
  \* display connection: callbacks requested and not yet delivered
  connected, sync_pending, frame_pending,
  \* compositor-side surface state derived from the render rectangle: the set
  \* holding the rectangle it was computed from, empty while there is none
  area_pending, area_applied, video_pending, video_applied,
  \* commit mode of the video subsurface: "sync" or "desync"
  video_sync_mode,
  \* streaming thread (render)
  spc, sbuf,
  \* dispatch thread (callbacks)
  dpc, dbuf, dinfo,
  \* application thread (constructor handshake, setters, finalize)
  gpc, fpc,
  \* history
  nRender, nCommit, nMap, presented, refs, falseCalls, infoSt, backToBack,
  lostCall, lastRect, lastSet, usedAfterClear,
  \* the number of the last render (NULL) call that went through, 0 if none
  nullCall,
  \* presented-buffer wrappers (GstWlBuffer), by buffer: the compositor holds
  \* the buffer, its zwp_linux_buffer_release_v1 object (NULL or 1), the
  \* holds on the media buffer taken for the compositor, and the release
  \* events handled and media-buffer unrefs done by the release handlers
  used_by_compositor, buffer_release, gst_hold, relEvents, relUnrefs,
  \* source crop of the window, and the last gst_wl_window_set_source_crop
  \* call: "none", "crop" with its rectangle <<x, y, width, height>>, "nocrop"
  src_x, src_y, src_width, src_height, cropCall, cropArg,
  \* gst_wl_window_new_toplevel: the shell globals the display has, whether
  \* the shell's surface objects can be created, the fullscreen argument, and
  \* the shell variant the window uses ("unset" until one is chosen)
  has_xdg_wm_base, has_wl_shell, has_fullscreen_shell, shell_objs, fullscreen,
  shell,
  \* the rotation and scale setters' fields, the fullscreen state last
  \* requested from the xdg toplevel, and the setter called last
  buffer_transform, scale, xdg_fullscreen, setCall,
  \* the sink: its GstState, sink->display (none, the sink's own connection
  \* or one handed in by the application), sink->window (none, a toplevel
  \* the sink made, or one embedded in the application's surface), and
  \* whether the application answers the context request with a display
  sink_state, sink_display, sink_window, appContext,
  \* the sink's render_lock ("none", or the thread holding it: "S" the
  \* streaming thread in show_frame, "D" the dispatch thread in a configure
  \* handler), and the xdg_toplevel configure event the compositor sent:
  \* "none", "pending", "locked" (its handler holds the render lock), "set"
  \* (the handler has called set_render_rectangle) or "handled", with the
  \* size it carries
  render_lock, cfg_state, cfg_width, cfg_height,
  \* the sink's redraw_pending and last_buffer (held or not), whether the
  \* frame callback requested by render_last_buffer is still outstanding on
  \* the window's surface, and whether show_frame is blocked in its
  \* g_cond_wait for redraw_pending
  sink_redraw_pending, sink_last_buffer, sink_frame_cb, sink_wait,
  \* the handle the last fullscreen request of the window was issued on:
  \* "none" (no request yet), "xdg_toplevel", "wl_shell_surface", or "null"
  \* for a request marshalled on a NULL handle
  fs_request,
  \* whether the display has the viewporter (the window then has an area and
  \* a video viewport), and the source rectangle in effect on the video
  \* viewport: "unset", or <<x, y, width, height>> in wl_fixed_t
  has_viewporter, viewport_source,
  \* the border of the area surface: the number of border buffers attached,
  \* the size of the last one (<<"none">>, <<"1x1">> or <<"rect", r>> for
  \* the size of render rectangle r) and the destination of the area
  \* viewport (the set holding the render rectangle it was set to)
  nBorder, border_size, area_dest,
  \* gst_wl_window_new_internal: the display's size <<width, height>>, the
  \* desktop size configured in weston.ini (<<>> if none can be read), and
  \* the window's fullscreen size
  display_size, desktop_size, fullscreen_width, fullscreen_height

winVars == <<configured, redraw_pending, next_buffer, staged_buffer,
             next_video_info, clear_window, is_area_surface_mapped,
             render_rectangle, scaled_width, commit_lock>>
dpyVars == <<connected, sync_pending, frame_pending>>
surfVars == <<area_pending, area_applied, video_pending, video_applied,
              video_sync_mode>>
sVars == <<spc, sbuf>>
dVars == <<dpc, dbuf, dinfo>>
gVars == <<gpc, fpc>>
renderHist == <<nRender, falseCalls, backToBack, lostCall, nullCall>>
geomHist == <<lastRect, lastSet>>
histVars == <<nCommit, nMap, presented, refs, infoSt, usedAfterClear>>

windowVars == <<winVars, dpyVars, surfVars, sVars, dVars, gVars, renderHist,
                geomHist, histVars>>
relVars == <<used_by_compositor, buffer_release, gst_hold, relEvents,
             relUnrefs>>
\* everything the window's presentation state machine leaves alone
cropVars == <<src_x, src_y, src_width, src_height, cropCall, cropArg>>
capVars == <<has_xdg_wm_base, has_wl_shell, has_fullscreen_shell, shell_objs,
             fullscreen>>
newVars == <<capVars, shell>>
lockVars == <<window_lock>>
hsVars == <<render_lock, cfg_state, cfg_width, cfg_height>>
\* the state of the components below, which the components above leave alone
redrawVars == <<sink_redraw_pending, sink_last_buffer, sink_frame_cb,
                sink_wait>>
fsVars == <<fs_request>>
vpVars == <<has_viewporter, viewport_source>>
borderVars == <<nBorder, border_size, area_dest>>
scaleVars == <<display_size, desktop_size, fullscreen_width,
               fullscreen_height>>
geoVars == <<vpVars, borderVars, scaleVars>>
\* the same without the border of the area surface
extraNoBorder == <<hsVars, redrawVars, fsVars, vpVars, scaleVars>>
extraVars == <<extraNoBorder, borderVars>>
sinkVars == <<sink_state, sink_display, sink_window, appContext>>
propVars == <<buffer_transform, scale, xdg_fullscreen>>
setterVars == <<propVars, setCall>>
\* everything the window's presentation state machine leaves alone
otherVars == <<relVars, cropVars, newVars, setterVars, sinkVars, lockVars, extraVars>>
\* everything the release handlers leave alone
notRelVars == <<windowVars, cropVars, newVars, setterVars, sinkVars, lockVars, extraVars>>
\* everything gst_wl_window_set_source_crop leaves alone
notCropVars == <<windowVars, relVars, newVars, setterVars, sinkVars, lockVars, extraVars>>
\* everything gst_wl_window_set_render_rectangle leaves alone outside the
\* window's presentation state
notRectVars == <<relVars, cropVars, newVars, propVars, sinkVars, lockVars,
                 extraNoBorder>>
\* everything gst_wl_window_commit_buffer leaves alone outside the window's
\* presentation state
otherNoBorder == <<relVars, cropVars, newVars, setterVars, sinkVars, lockVars,
                   extraNoBorder>>
\* everything the sink's state changes leave alone
notSinkVars == <<windowVars, relVars, cropVars, capVars, setterVars, lockVars,
                 hsVars, geoVars>>

vars == <<windowVars, otherVars>>

\* ------------------------------------------------------------ video info
\* The k-th render() call that carries a GstVideoInfo carries info number k.
InfoWidth(i) == 640
InfoParN(i) == 1
InfoParD(i) == 2

\* gst_util_uint64_scale_int_round (val, num, denom): val * num / denom,
\* rounded to nearest.
ScaleIntRound(val, num, denom) == (val * num + denom \div 2) \div denom

ScaledWidth(i) == ScaleIntRound(InfoWidth(i), InfoParN(i), InfoParD(i))

\* ------------------------------------------------------------------ init
\* gst_wl_window_init, gst_wl_window_new_internal and the shell setup of
\* gst_wl_window_new_toplevel / gst_wl_window_new_in_surface.  With the xdg
\* shell the constructor clears configured, commits the area surface and
\* waits for the configure event (gpc = "handshake"); every other window
\* keeps configured = TRUE from gst_wl_window_init.
InitFields ==
  /\ redraw_pending = FALSE
  /\ next_buffer = NULL
  /\ staged_buffer = NULL
  /\ next_video_info = NULL
  /\ clear_window = FALSE
  /\ is_area_surface_mapped = FALSE
  /\ render_rectangle = 0
  /\ scaled_width = 0
  /\ commit_lock = "none"
  /\ window_lock = "none"
  /\ connected = TRUE
  /\ sync_pending = 0
  /\ frame_pending = 0
  /\ area_pending = {}
  /\ area_applied = {}
  /\ video_pending = {}
  /\ video_applied = {}
  /\ video_sync_mode = "desync"
  /\ spc = "idle"
  /\ sbuf = NULL
  /\ dpc = "idle"
  /\ dbuf = NULL
  /\ dinfo = NULL
  /\ fpc = "alive"
  /\ nRender = 0
  /\ nCommit = 0
  /\ nMap = 0
  /\ presented = <<>>
  /\ refs = [b \in Calls |-> 0]
  /\ falseCalls = {}
  /\ infoSt = [k \in Calls |-> "none"]
  /\ backToBack = TRUE
  /\ lostCall = FALSE
  /\ nullCall = 0
  /\ lastRect = 0
  /\ lastSet = "none"
  /\ usedAfterClear = FALSE

\* A constructed window: one made by gst_wl_window_new_toplevel on an xdg
\* shell display is in its configure handshake with configured cleared
\* (line 616), every other one keeps configured = TRUE from
\* gst_wl_window_init.
InitWindow ==
  /\ gpc \in {"handshake", "idle"}
  /\ configured = (gpc = "idle")
  /\ InitFields

\* The display and shell variant of such a window.
ShellOfWindow ==
  /\ has_xdg_wm_base = (gpc = "handshake")
  /\ has_wl_shell = FALSE
  /\ has_fullscreen_shell = TRUE
  /\ shell_objs = "ok"
  /\ fullscreen = FALSE
  /\ shell = IF gpc = "handshake" THEN "xdg" ELSE "fullscreen_shell"

\* No buffer has been attached yet: gst_buffer_add_wl_buffer leaves the
\* wrapper unused and without a release object.
ReleaseIdle ==
  /\ used_by_compositor = [b \in RelBufs |-> FALSE]
  /\ buffer_release = [b \in RelBufs |-> NULL]
  /\ gst_hold = [b \in RelBufs |-> 0]
  /\ relEvents = [b \in RelBufs |-> 0]
  /\ relUnrefs = [b \in RelBufs |-> 0]

\* gst_wl_window_init lines 401-404.
CropIdle ==
  /\ src_x = 0
  /\ src_y = 0
  /\ src_width = SrcWidthUnset
  /\ src_height = 0
  /\ cropCall = "none"
  /\ cropArg = <<0, 0, 0, 0>>

\* gst_wl_window_init line 406 and the zeroed instance structure: scale 1,
\* WL_OUTPUT_TRANSFORM_NORMAL; no setter called yet.
SettersIdle ==
  /\ buffer_transform = "normal"
  /\ scale = 1
  /\ xdg_fullscreen = FALSE
  /\ setCall = "none"

\* The sink of a constructed toplevel window: gst_wayland_sink_show_frame
\* made it, on the display the sink opened itself.
SinkOfWindow ==
  /\ sink_state = "PAUSED"
  /\ sink_display = "own"
  /\ sink_window = "toplevel"
  /\ appContext = FALSE

\* No thread is in show_frame and no toplevel-configure event is queued.
HandshakeIdle ==
  /\ render_lock = "none"
  /\ cfg_state = "none"
  /\ cfg_width = 0
  /\ cfg_height = 0

\* gst_wayland_sink_init: the zeroed instance has no buffer and no redraw
\* pending.
RedrawIdle ==
  /\ sink_redraw_pending = FALSE
  /\ sink_last_buffer = FALSE
  /\ sink_frame_cb = FALSE
  /\ sink_wait = FALSE

\* ext/wayland/wlutils.c (the header that defines it is not part of the
\* sources at hand)
PANEL_HEIGH == 32

\* gst_wl_window_new_internal lines 506-512: no source rectangle has been set
\* on the new video viewport.
ViewportIdle == viewport_source = "unset"

\* No border buffer has been attached, the area viewport has no destination.
BordersIdle ==
  /\ nBorder = 0
  /\ border_size = <<"none">>
  /\ area_dest = {}

\* A window constructed on a display of size 8x40 whose weston.ini cannot be
\* read: gst_wl_window_new_internal lines 533-537.
ScaleIdle ==
  /\ display_size = <<8, 40>>
  /\ desktop_size = <<>>
  /\ fullscreen_width = 8
  /\ fullscreen_height = 40 - PANEL_HEIGH

ExtraIdleAny ==
  /\ HandshakeIdle /\ RedrawIdle /\ fs_request = "none"
  /\ ViewportIdle /\ BordersIdle /\ ScaleIdle

\* The display has the viewporter.
ExtraIdle == ExtraIdleAny /\ has_viewporter = TRUE

InitOther ==
  /\ ReleaseIdle /\ CropIdle /\ ShellOfWindow /\ SettersIdle /\ SinkOfWindow
  /\ ExtraIdle

Init == InitWindow /\ InitOther

\* update_borders attaching a border buffer on every call.
UpdateBorders_AlwaysAttaches(r) ==
  /\ area_dest' = IF has_viewporter THEN {r} ELSE area_dest
  /\ nBorder' = nBorder + 1
  /\ border_size' = IF has_viewporter THEN <<"1x1">> ELSE <<"rect", r>>

\* gst_wl_window_update_borders lines 1026-1090 for render rectangle r: with
\* the viewporter the area viewport's destination is set and, if the area
\* surface is mapped, nothing else is done; otherwise a border buffer is
\* allocated and attached to the area surface, 1x1 with the viewporter and
\* of the rectangle's size without.
UpdateBorders(r) ==
  /\ area_dest' = IF has_viewporter THEN {r} ELSE area_dest
  /\ IF has_viewporter /\ is_area_surface_mapped
       THEN UNCHANGED <<nBorder, border_size>>
       ELSE /\ nBorder' = nBorder + 1
            /\ border_size' = IF has_viewporter THEN <<"1x1">> ELSE <<"rect", r>>

\* gst_wl_window_update_geometry lines 1103-1104: the borders are updated if
\* the area surface is mapped.
UpdateGeometryBorders(r) ==
  /\ (~has_viewporter /\ is_area_surface_mapped) => nBorder < MaxBorder
  /\ IF is_area_surface_mapped THEN UpdateBorders(r) ELSE UNCHANGED borderVars

\* ------------------------------------------------------- render (thread S)
\* render() reporting a drop whenever next_buffer is occupied, whether or not
\* a staged buffer was released.
RenderBody_FalseOnStage(k, buffer, r0) ==
  LET drop == next_buffer # NULL /\ staged_buffer # NULL
  IN /\ refs' = IF drop THEN [r0 EXCEPT ![staged_buffer] = @ - 1] ELSE r0
     /\ falseCalls' = IF next_buffer # NULL THEN falseCalls \cup {k}
                       ELSE falseCalls
     /\ IF next_buffer = NULL
          THEN /\ next_buffer' = buffer
               /\ redraw_pending' = TRUE
               /\ sync_pending' = sync_pending + 1
               /\ UNCHANGED staged_buffer
          ELSE /\ staged_buffer' = buffer
               /\ UNCHANGED <<next_buffer, redraw_pending, sync_pending>>
     /\ clear_window' = IF buffer = NULL THEN TRUE ELSE clear_window
     /\ nullCall' = IF buffer = NULL THEN k ELSE nullCall
     /\ spc' = "idle"

\* gst_wl_window_render lines 1000-1018, run with window_lock held once
\* redraw_pending is clear: drop a staged buffer when both slots are full,
\* then either take the next_buffer slot and ask the display for a commit
\* callback, or stage the buffer; the call returns ret.  r0 is the reference
\* table on entry.
RenderBody(k, buffer, r0) ==
  LET drop == next_buffer # NULL /\ staged_buffer # NULL
  IN /\ refs' = IF drop THEN [r0 EXCEPT ![staged_buffer] = @ - 1] ELSE r0
     /\ falseCalls' = IF drop THEN falseCalls \cup {k} ELSE falseCalls
     /\ IF next_buffer = NULL
          THEN /\ next_buffer' = buffer
               /\ redraw_pending' = TRUE
               /\ sync_pending' = sync_pending + 1
               /\ UNCHANGED staged_buffer
          ELSE /\ staged_buffer' = buffer
               /\ UNCHANGED <<next_buffer, redraw_pending, sync_pending>>
     /\ clear_window' = IF buffer = NULL THEN TRUE ELSE clear_window
     /\ nullCall' = IF buffer = NULL THEN k ELSE nullCall
     /\ spc' = "idle"

\* gst_wl_window_render lines 990-998: take the reference, lock window_lock,
\* record the video info, then wait on redraw_wait while redraw_pending is
\* set (the wait releases window_lock) or go straight on to the body.  The
\* k-th call passes buffer k (or NULL) and video info k (or NULL).
RenderCall(hasBuf, hasInfo) ==
  LET k == nRender + 1
      buffer == IF hasBuf THEN k ELSE NULL
      r0 == IF hasBuf THEN [refs EXCEPT ![k] = @ + 1] ELSE refs
      old == next_video_info
      st1 == IF hasInfo /\ old # NULL /\ infoSt[old] = "pending"
               THEN [infoSt EXCEPT ![old] = "overwritten"] ELSE infoSt
  IN /\ spc = "idle"
     /\ gpc # "handshake"
     /\ fpc = "alive"
     /\ window_lock = "none"
     /\ nRender < MaxRenders
     /\ nRender' = k
     /\ sbuf' = buffer
     /\ lostCall' = ~connected
     /\ backToBack' = (backToBack /\ hasBuf /\ (k = 1 \/ redraw_pending))
     /\ next_video_info' = IF hasInfo THEN k ELSE next_video_info
     /\ infoSt' = IF hasInfo THEN [st1 EXCEPT ![k] = "pending"] ELSE st1
     /\ IF redraw_pending
          THEN /\ spc' = "wait"
               /\ refs' = r0
               /\ UNCHANGED <<falseCalls, next_buffer, staged_buffer,
                              redraw_pending, sync_pending, clear_window,
                              nullCall>>
          ELSE RenderBody(k, buffer, r0)
     /\ UNCHANGED <<otherVars, configured, is_area_surface_mapped,
                    render_rectangle,
                    scaled_width, commit_lock, connected, frame_pending,
                    surfVars, dVars, gVars, geomHist, nCommit, nMap,
                 presented,
                    usedAfterClear>>

\* gst_wl_window_render lines 997-1018: g_cond_wait returns with window_lock
\* held again, the loop finds redraw_pending clear and the body runs.
RenderWake ==
  /\ spc = "wait"
  /\ ~redraw_pending
  /\ window_lock = "none"
  /\ fpc \in {"alive", "signalled"}
  /\ RenderBody(nRender, sbuf, refs)
  /\ UNCHANGED <<otherVars, configured, next_video_info,
                 is_area_surface_mapped,
                 render_rectangle, scaled_width, commit_lock, connected,
                 frame_pending, surfVars, sbuf, dVars, gVars, nRender,
                 backToBack, lostCall, geomHist, nCommit, nMap,
                 presented, infoSt,
                 usedAfterClear>>

\* The same wake-up once gst_wl_window_finalize has run g_mutex_clear and
\* g_cond_clear (lines 425-429): g_cond_wait re-locks a destroyed mutex of a
\* window that is being freed.  The behaviour is undefined; the thread either
\* goes on as if the lock were still valid or stops (abort or hang).
RenderWakeDestroyed ==
  /\ spc = "wait"
  /\ ~redraw_pending
  /\ fpc \in {"cleared", "freed"}
  /\ usedAfterClear' = TRUE
  /\ \/ RenderBody(nRender, sbuf, refs)
     \/ /\ spc' = "crashed"
        /\ UNCHANGED <<refs, falseCalls, next_buffer, staged_buffer,
                       redraw_pending, sync_pending, clear_window, nullCall>>
  /\ UNCHANGED <<otherVars, configured, next_video_info,
                 is_area_surface_mapped,
                 render_rectangle, scaled_width, commit_lock, connected,
                 frame_pending, surfVars, sbuf, dVars, gVars, nRender,
                 backToBack, lostCall, geomHist, nCommit, nMap,
                 presented, infoSt>>

\* ------------------------------------------------- callbacks (thread D)
\* A commit callback that does the work of the frame callback: it promotes
\* the staged buffer and clears redraw_pending as soon as it runs.
CommitCallback_Completes ==
  /\ dpc = "idle"
  /\ sync_pending > 0
  /\ connected
  /\ fpc = "alive"
  /\ sync_pending' = sync_pending - 1
  /\ dbuf' = next_buffer
  /\ next_buffer' = staged_buffer
  /\ staged_buffer' = NULL
  /\ redraw_pending' = FALSE
  /\ dpc' = "commit_enter"
  /\ UNCHANGED <<otherVars, configured, next_video_info, clear_window,
                 is_area_surface_mapped, render_rectangle, scaled_width,
                 commit_lock, connected, frame_pending, surfVars, sVars, dinfo,
                 gVars, renderHist, geomHist, histVars>>

\* A commit callback that runs the commit sequence without unlocking
\* window_lock first.
CommitCallback_KeepsWindowLock ==
  /\ dpc = "idle"
  /\ sync_pending > 0
  /\ window_lock = "none"
  /\ connected
  /\ fpc = "alive"
  /\ sync_pending' = sync_pending - 1
  /\ dbuf' = next_buffer
  /\ dpc' = "commit_enter"
  /\ window_lock' = "D"
  /\ UNCHANGED <<relVars, cropVars, newVars, setterVars, sinkVars, extraVars,
                 winVars,
                 connected, frame_pending, surfVars, sVars, dinfo, gVars,
                 renderHist, geomHist, histVars>>

\* commit_callback lines 966-971: the callback object is destroyed and
\* next_buffer is read under window_lock, which is unlocked again before
\* gst_wl_window_commit_buffer is called; the slot is left as it is.
CommitCallback ==
  /\ dpc = "idle"
  /\ sync_pending > 0
  /\ window_lock = "none"
  /\ connected
  /\ fpc = "alive"
  /\ sync_pending' = sync_pending - 1
  /\ dbuf' = next_buffer
  /\ dpc' = "commit_enter"
  /\ UNCHANGED <<otherVars, winVars, connected, frame_pending, surfVars,
                 sVars, dinfo,
                 gVars, renderHist, geomHist, histVars>>

\* A frame callback that leaves next_buffer in its slot and commits it again.
FrameRedrawCallback_KeepsNext ==
  /\ dpc = "idle"
  /\ frame_pending > 0
  /\ connected
  /\ fpc = "alive"
  /\ frame_pending' = frame_pending - 1
  /\ redraw_pending' = FALSE
  /\ dbuf' = next_buffer
  /\ dpc' = "frame_check"
  /\ UNCHANGED <<otherVars, configured, next_buffer, staged_buffer,
                 next_video_info,
                 clear_window, is_area_surface_mapped, render_rectangle,
                 scaled_width, commit_lock, connected, sync_pending, surfVars,
                 sVars, dinfo, gVars, renderHist, geomHist, histVars>>

\* frame_redraw_callback lines 865-873: under window_lock the staged buffer
\* becomes next_buffer, redraw_pending is cleared and redraw_wait signalled.
FrameRedrawCallback ==
  /\ dpc = "idle"
  /\ frame_pending > 0
  /\ window_lock = "none"
  /\ connected
  /\ fpc = "alive"
  /\ frame_pending' = frame_pending - 1
  /\ next_buffer' = staged_buffer
  /\ staged_buffer' = NULL
  /\ redraw_pending' = FALSE
  /\ dbuf' = staged_buffer
  /\ dpc' = "frame_check"
  /\ UNCHANGED <<otherVars, configured, next_video_info, clear_window,
                 is_area_surface_mapped, render_rectangle, scaled_width,
                 commit_lock, connected, sync_pending, surfVars, sVars, dinfo,
                 gVars, renderHist, geomHist, histVars>>

\* frame_redraw_callback lines 875-879: after window_lock is released,
\* clear_window is read and the commit sequence entered if there is a
\* promoted buffer or a clear request.
FrameRedrawCheck ==
  /\ dpc = "frame_check"
  /\ dpc' = IF dbuf # NULL \/ clear_window THEN "commit_enter" ELSE "idle"
  /\ UNCHANGED <<otherVars, winVars, dpyVars, surfVars, sVars, dbuf, dinfo,
                 gVars,
                 renderHist, geomHist, histVars>>

\* gst_wl_window_commit_buffer lines 890-905: next_video_info is read without
\* window_lock; if set, the video size is taken from it and the video
\* surface geometry is computed from the render rectangle
\* (gst_wl_window_resize_video_surface with commit = FALSE).
CommitBufferEnter ==
  /\ dpc = "commit_enter"
  /\ dinfo' = next_video_info
  /\ IF next_video_info # NULL
       THEN /\ scaled_width' = ScaledWidth(next_video_info)
            /\ video_sync_mode' = "sync"
            /\ video_pending' = {render_rectangle}
            /\ infoSt' = [infoSt EXCEPT ![next_video_info] =
                            IF @ = "pending" THEN "applied" ELSE "twice"]
       ELSE UNCHANGED <<scaled_width, video_sync_mode, video_pending, infoSt>>
  /\ dpc' = "commit_body"
  /\ UNCHANGED <<otherVars, configured, redraw_pending, next_buffer,
                 staged_buffer,
                 next_video_info, clear_window, is_area_surface_mapped,
                 render_rectangle, commit_lock, dpyVars, area_pending,
                 area_applied, video_applied, sVars, dbuf, gVars, renderHist,
                 geomHist, nCommit, nMap,
                 presented, refs, usedAfterClear>>

\* A commit sequence whose caller does not release the buffer's reference.
CommitBufferBody_KeepsReference ==
  LET areaAfter == IF dbuf # NULL /\ ~is_area_surface_mapped
                     THEN {render_rectangle} ELSE area_pending
      areaCommitted == (dbuf = NULL) \/ ~is_area_surface_mapped \/ dinfo # NULL
  IN /\ dpc = "commit_body"
     /\ commit_lock = "none"
     /\ video_applied' = video_pending
     /\ area_pending' = areaAfter
     /\ area_applied' = IF areaCommitted THEN areaAfter ELSE area_applied
     /\ IF dbuf # NULL
          THEN /\ frame_pending' = frame_pending + 1
               /\ presented' = Append(presented, dbuf)
               /\ is_area_surface_mapped' = TRUE
               /\ UNCHANGED refs
               /\ UNCHANGED clear_window
          ELSE /\ is_area_surface_mapped' = FALSE
               /\ clear_window' = FALSE
               /\ UNCHANGED <<frame_pending, presented, refs>>
     /\ IF dinfo # NULL
          THEN /\ next_video_info' = NULL
               /\ video_sync_mode' = "desync"
               /\ infoSt' = IF next_video_info # NULL /\ next_video_info # dinfo
                              THEN [infoSt EXCEPT ![next_video_info] = "discarded"]
                              ELSE infoSt
          ELSE UNCHANGED <<next_video_info, infoSt, video_sync_mode>>
     /\ nCommit' = nCommit + 1
     /\ IF dbuf # NULL /\ ~is_area_surface_mapped
          THEN UpdateBorders(render_rectangle)
          ELSE UNCHANGED borderVars
     /\ nMap' = IF dbuf # NULL /\ ~is_area_surface_mapped THEN nMap + 1 ELSE nMap
     /\ dpc' = "idle"
     /\ dbuf' = NULL
     /\ dinfo' = NULL
     /\ UNCHANGED <<otherNoBorder, configured, redraw_pending, next_buffer,
                    staged_buffer,
                    render_rectangle, scaled_width, commit_lock, connected,
                    sync_pending, video_pending, sVars, gVars, renderHist,
                    geomHist, usedAfterClear>>

\* A commit sequence whose detach leaves clear_window set.
CommitBufferBody_KeepsClearWindow ==
  LET areaAfter == IF dbuf # NULL /\ ~is_area_surface_mapped
                     THEN {render_rectangle} ELSE area_pending
      areaCommitted == (dbuf = NULL) \/ ~is_area_surface_mapped \/ dinfo # NULL
  IN /\ dpc = "commit_body"
     /\ commit_lock = "none"
     /\ video_applied' = video_pending
     /\ area_pending' = areaAfter
     /\ area_applied' = IF areaCommitted THEN areaAfter ELSE area_applied
     /\ IF dbuf # NULL
          THEN /\ frame_pending' = frame_pending + 1
               /\ presented' = Append(presented, dbuf)
               /\ is_area_surface_mapped' = TRUE
               /\ refs' = [refs EXCEPT ![dbuf] = @ - 1]
               /\ UNCHANGED clear_window
          ELSE /\ is_area_surface_mapped' = FALSE
               /\ UNCHANGED <<clear_window, frame_pending, presented, refs>>
     /\ IF dinfo # NULL
          THEN /\ next_video_info' = NULL
               /\ video_sync_mode' = "desync"
               /\ infoSt' = IF next_video_info # NULL /\ next_video_info # dinfo
                              THEN [infoSt EXCEPT ![next_video_info] = "discarded"]
                              ELSE infoSt
          ELSE UNCHANGED <<next_video_info, infoSt, video_sync_mode>>
     /\ nCommit' = nCommit + 1
     /\ IF dbuf # NULL /\ ~is_area_surface_mapped
          THEN UpdateBorders(render_rectangle)
          ELSE UNCHANGED borderVars
     /\ nMap' = IF dbuf # NULL /\ ~is_area_surface_mapped THEN nMap + 1 ELSE nMap
     /\ dpc' = "idle"
     /\ dbuf' = NULL
     /\ dinfo' = NULL
     /\ UNCHANGED <<otherNoBorder, configured, redraw_pending, next_buffer,
                    staged_buffer,
                    render_rectangle, scaled_width, commit_lock, connected,
                    sync_pending, video_pending, sVars, gVars, renderHist,
                    geomHist, usedAfterClear>>

\* A commit sequence that emits the map signal with every buffer commit.
CommitBufferBody_AlwaysEmits ==
  LET areaAfter == IF dbuf # NULL /\ ~is_area_surface_mapped
                     THEN {render_rectangle} ELSE area_pending
      areaCommitted == (dbuf = NULL) \/ ~is_area_surface_mapped \/ dinfo # NULL
  IN /\ dpc = "commit_body"
     /\ commit_lock = "none"
     /\ video_applied' = video_pending
     /\ area_pending' = areaAfter
     /\ area_applied' = IF areaCommitted THEN areaAfter ELSE area_applied
     /\ IF dbuf # NULL
          THEN /\ frame_pending' = frame_pending + 1
               /\ presented' = Append(presented, dbuf)
               /\ is_area_surface_mapped' = TRUE
               /\ refs' = [refs EXCEPT ![dbuf] = @ - 1]
               /\ UNCHANGED clear_window
          ELSE /\ is_area_surface_mapped' = FALSE
               /\ clear_window' = FALSE
               /\ UNCHANGED <<frame_pending, presented, refs>>
     /\ IF dinfo # NULL
          THEN /\ next_video_info' = NULL
               /\ video_sync_mode' = "desync"
               /\ infoSt' = IF next_video_info # NULL /\ next_video_info # dinfo
                              THEN [infoSt EXCEPT ![next_video_info] = "discarded"]
                              ELSE infoSt
          ELSE UNCHANGED <<next_video_info, infoSt, video_sync_mode>>
     /\ nCommit' = nCommit + 1
     /\ IF dbuf # NULL /\ ~is_area_surface_mapped
          THEN UpdateBorders(render_rectangle)
          ELSE UNCHANGED borderVars
     /\ nMap' = IF dbuf # NULL THEN nMap + 1 ELSE nMap
     /\ dpc' = "idle"
     /\ dbuf' = NULL
     /\ dinfo' = NULL
     /\ UNCHANGED <<otherNoBorder, configured, redraw_pending, next_buffer,
                    staged_buffer,
                    render_rectangle, scaled_width, commit_lock, connected,
                    sync_pending, video_pending, sVars, gVars, renderHist,
                    geomHist, usedAfterClear>>

\* gst_wl_window_commit_buffer lines 907-956 under commit_lock, then the
\* caller's gst_wl_buffer_unref_buffer (lines 975-976, 878-879).
\* With a buffer: request the frame callback, attach and commit the video
\* surface, and if the area surface is not mapped, map it and emit the map
\* signal (lines 930-934).  Without one:
\* detach and commit both surfaces, clear the mapped flag and clear_window.
\* If a video info was read on entry: commit the area surface, free
\* priv->next_video_info and set it to NULL.
CommitBufferBody ==
  LET areaAfter == IF dbuf # NULL /\ ~is_area_surface_mapped
                     THEN {render_rectangle} ELSE area_pending
      areaCommitted == (dbuf = NULL) \/ ~is_area_surface_mapped \/ dinfo # NULL
  IN /\ dpc = "commit_body"
     /\ commit_lock = "none"
     /\ video_applied' = video_pending
     /\ area_pending' = areaAfter
     /\ area_applied' = IF areaCommitted THEN areaAfter ELSE area_applied
     /\ IF dbuf # NULL
          THEN /\ frame_pending' = frame_pending + 1
               /\ presented' = Append(presented, dbuf)
               /\ is_area_surface_mapped' = TRUE
               /\ refs' = [refs EXCEPT ![dbuf] = @ - 1]
               /\ UNCHANGED clear_window
          ELSE /\ is_area_surface_mapped' = FALSE
               /\ clear_window' = FALSE
               /\ UNCHANGED <<frame_pending, presented, refs>>
     /\ IF dinfo # NULL
          THEN /\ next_video_info' = NULL
               /\ video_sync_mode' = "desync"
               /\ infoSt' = IF next_video_info # NULL /\ next_video_info # dinfo
                              THEN [infoSt EXCEPT ![next_video_info] = "discarded"]
                              ELSE infoSt
          ELSE UNCHANGED <<next_video_info, infoSt, video_sync_mode>>
     /\ nCommit' = nCommit + 1
     /\ IF dbuf # NULL /\ ~is_area_surface_mapped
          THEN UpdateBorders(render_rectangle)
          ELSE UNCHANGED borderVars
     /\ nMap' = IF dbuf # NULL /\ ~is_area_surface_mapped THEN nMap + 1 ELSE nMap
     /\ dpc' = "idle"
     /\ dbuf' = NULL
     /\ dinfo' = NULL
     /\ UNCHANGED <<otherNoBorder, configured, redraw_pending, next_buffer,
                    staged_buffer,
                    render_rectangle, scaled_width, commit_lock, connected,
                    sync_pending, video_pending, sVars, gVars, renderHist,
                    geomHist, usedAfterClear>>

\* handle_xdg_surface_configure lines 285-297.
XdgSurfaceConfigure ==
  /\ dpc = "idle"
  /\ ~configured
  /\ connected
  /\ fpc = "alive"
  /\ configured' = TRUE
  /\ UNCHANGED <<otherVars, redraw_pending, next_buffer, staged_buffer,
                 next_video_info,
                 clear_window, is_area_surface_mapped, render_rectangle,
                 scaled_width, commit_lock, dpyVars, surfVars, sVars, dVars,
                 gVars, renderHist, geomHist, histVars>>

\* The compositor goes away: no callback or event is delivered any more.
DisplayLost ==
  /\ connected
  /\ fpc = "alive"
  /\ connected' = FALSE
  /\ UNCHANGED <<otherVars, winVars, sync_pending, frame_pending, surfVars,
                 sVars, dVars,
                 gVars, renderHist, geomHist, histVars>>

\* ------------------------------------- constructor and setters (thread G)
\* gst_wl_window_new_toplevel lines 620-629: the wait ends because
\* handle_xdg_surface_configure set configured ...
HandshakeAcked ==
  /\ gpc = "handshake"
  /\ configured
  /\ gpc' = "idle"
  /\ UNCHANGED <<otherVars, winVars, dpyVars, surfVars, sVars, dVars, fpc,
                 renderHist,
                 geomHist, histVars>>

\* A handshake that waits without a deadline.
HandshakeTimeout_NoDeadline ==
  /\ FALSE
  /\ UNCHANGED vars

\* ... or because g_cond_wait_until ran into the 100 ms timeout.
HandshakeTimeout ==
  /\ gpc = "handshake"
  /\ ~configured
  /\ gpc' = "idle"
  /\ UNCHANGED <<otherVars, winVars, dpyVars, surfVars, sVars, dVars, fpc,
                 renderHist,
                 geomHist, histVars>>

\* set_render_rectangle without the test of configured in update_geometry.
SetRenderRectangle_NoConfiguredCheck(r) ==
  /\ gpc = "idle"
  /\ fpc = "alive"
  /\ lastRect' = r
  /\ setCall' = "render_rectangle"
  /\ IF r = render_rectangle
       THEN /\ lastSet' = "same"
            /\ UNCHANGED <<render_rectangle, area_pending, gpc, borderVars>>
       ELSE /\ render_rectangle' = r
            /\ UpdateGeometryBorders(r)
            /\ area_pending' = IF is_area_surface_mapped THEN {r} ELSE area_pending
            /\ gpc' = "geom_check"
            /\ lastSet' = IF configured THEN "configured"
                           ELSE IF lastSet \in {"unconfigured", "unconfigured2"}
                                  THEN "unconfigured2" ELSE "unconfigured"
  /\ UNCHANGED <<notRectVars, configured, redraw_pending, next_buffer,
                 staged_buffer,
                 next_video_info, clear_window, is_area_surface_mapped,
                 scaled_width, commit_lock, dpyVars, area_applied,
                 video_pending, video_applied, video_sync_mode,
                 sVars, dVars, fpc, renderHist,
                 histVars>>

\* set_render_rectangle without the early return for an unchanged rectangle.
SetRenderRectangle_NoSameCheck(r) ==
  /\ gpc = "idle"
  /\ fpc = "alive"
  /\ lastRect' = r
  /\ setCall' = "render_rectangle"
  /\ render_rectangle' = r
  /\ UpdateGeometryBorders(r)
  /\ area_pending' = IF is_area_surface_mapped THEN {r} ELSE area_pending
  /\ gpc' = IF configured THEN "geom_check" ELSE "idle"
  /\ lastSet' = IF r = render_rectangle THEN "same"
                 ELSE IF configured THEN "configured"
                 ELSE IF lastSet \in {"unconfigured", "unconfigured2"}
                        THEN "unconfigured2" ELSE "unconfigured"
  /\ UNCHANGED <<notRectVars, configured, redraw_pending, next_buffer,
                 staged_buffer,
                 next_video_info, clear_window, is_area_surface_mapped,
                 scaled_width, commit_lock, dpyVars, area_applied,
                 video_pending, video_applied, video_sync_mode,
                 sVars, dVars, fpc, renderHist,
                 histVars>>

\* gst_wl_window_set_render_rectangle lines 1123-1139 and the head of
\* gst_wl_window_update_geometry, lines 1097-1107: return if the rectangle
\* is the stored one; otherwise store it, refresh the borders of a mapped
\* area surface (gst_wl_window_update_borders sets the area viewport
\* destination or attaches a border buffer of the rectangle's size) and
\* stop there unless the window is configured.  The callers are the sink,
\* gst_wl_window_new_toplevel after its handshake (lines 640-659) and
\* handle_xdg_toplevel_configure (lines 250-277), one at a time under the
\* sink's render lock.
SetRenderRectangleBody(r) ==
  /\ gpc = "idle"
  /\ fpc = "alive"
  /\ lastRect' = r
  /\ setCall' = "render_rectangle"
  /\ IF r = render_rectangle
       THEN /\ lastSet' = "same"
            /\ UNCHANGED <<render_rectangle, area_pending, gpc, borderVars>>
       ELSE /\ render_rectangle' = r
            /\ UpdateGeometryBorders(r)
            /\ area_pending' = IF is_area_surface_mapped THEN {r} ELSE area_pending
            /\ gpc' = IF configured THEN "geom_check" ELSE "idle"
            /\ lastSet' = IF configured THEN "configured"
                           ELSE IF lastSet \in {"unconfigured", "unconfigured2"}
                                  THEN "unconfigured2" ELSE "unconfigured"
  /\ UNCHANGED <<relVars, cropVars, newVars, propVars, sinkVars, lockVars,
                 configured, redraw_pending, next_buffer,
                 staged_buffer,
                 next_video_info, clear_window, is_area_surface_mapped,
                 scaled_width, commit_lock, dpyVars, area_applied,
                 video_pending, video_applied, video_sync_mode,
                 sVars, dVars, fpc, renderHist,
                 histVars>>

\* The call made by the application, the sink or the constructor.
SetRenderRectangle(r) ==
  /\ SetRenderRectangleBody(r)
  /\ UNCHANGED extraNoBorder

\* gst_wl_window_update_geometry lines 1109-1113: if the video size is known,
\* take commit_lock and resize the video surface, committing it.
UpdateGeometryLock ==
  /\ gpc = "geom_check"
  /\ IF scaled_width # 0
       THEN /\ commit_lock = "none"
            /\ commit_lock' = "G"
            /\ video_sync_mode' = "sync"
            /\ video_pending' = {render_rectangle}
            /\ video_applied' = {render_rectangle}
       ELSE UNCHANGED <<commit_lock, video_sync_mode, video_pending,
                        video_applied>>
  /\ gpc' = "geom_commit"
  /\ UNCHANGED <<otherVars, configured, redraw_pending, next_buffer,
                 staged_buffer,
                 next_video_info, clear_window, is_area_surface_mapped,
                 render_rectangle, scaled_width, dpyVars, area_pending,
                 area_applied, sVars, dVars, fpc, renderHist, geomHist,
                 histVars>>

\* A geometry update that leaves the video subsurface in sync mode.
UpdateGeometryCommit_NoDesync ==
  /\ gpc = "geom_commit"
  /\ area_applied' = area_pending
  /\ UNCHANGED video_sync_mode
  /\ IF scaled_width # 0 /\ commit_lock # "G"
       THEN \/ /\ gpc' = "idle"
               /\ commit_lock' = "none"
            \/ /\ gpc' = "crashed"
               /\ UNCHANGED commit_lock
       ELSE /\ gpc' = "idle"
            /\ commit_lock' = IF scaled_width # 0 THEN "none" ELSE commit_lock
  /\ UNCHANGED <<otherVars, configured, redraw_pending, next_buffer,
                 staged_buffer,
                 next_video_info, clear_window, is_area_surface_mapped,
                 render_rectangle, scaled_width, dpyVars, area_pending,
                 video_pending, video_applied, sVars, dVars, fpc, renderHist,
                 geomHist, histVars>>

\* gst_wl_window_update_geometry lines 1115-1120: commit the area surface
\* and, if the video size is known by now, release commit_lock.  If the
\* lock was not taken at line 1110 because scaled_width was still 0 then,
\* g_mutex_unlock is called on a mutex the thread does not hold: the
\* behaviour is undefined, the thread goes on or the process aborts.
UpdateGeometryCommit ==
  /\ gpc = "geom_commit"
  /\ area_applied' = area_pending
  /\ video_sync_mode' = IF scaled_width # 0 THEN "desync" ELSE video_sync_mode
  /\ IF scaled_width # 0 /\ commit_lock # "G"
       THEN \/ /\ gpc' = "idle"
               /\ commit_lock' = "none"
            \/ /\ gpc' = "crashed"
               /\ UNCHANGED commit_lock
       ELSE /\ gpc' = "idle"
            /\ commit_lock' = IF scaled_width # 0 THEN "none" ELSE commit_lock
  /\ UNCHANGED <<otherVars, configured, redraw_pending, next_buffer,
                 staged_buffer,
                 next_video_info, clear_window, is_area_surface_mapped,
                 render_rectangle, scaled_width, dpyVars, area_pending,
                 video_pending, video_applied, sVars, dVars, fpc, renderHist,
                 geomHist, histVars>>

\* --------------------------------------------------- finalize (thread G)
\* gst_wl_window_finalize lines 417-423: both callbacks are destroyed, then
\* redraw_pending is cleared and redraw_wait signalled under window_lock.
FinalizeWake ==
  /\ gpc = "idle"
  /\ dpc = "idle"
  /\ fpc = "alive"
  /\ sync_pending' = 0
  /\ frame_pending' = 0
  /\ redraw_pending' = FALSE
  /\ fpc' = "signalled"
  /\ UNCHANGED <<otherVars, configured, next_buffer, staged_buffer,
                 next_video_info,
                 clear_window, is_area_surface_mapped, render_rectangle,
                 scaled_width, commit_lock, connected, surfVars, sVars, dVars,
                 gpc, renderHist, geomHist, histVars>>

\* gst_wl_window_finalize lines 425-429: the conditions and mutexes are
\* cleared.
FinalizeClear ==
  /\ fpc = "signalled"
  /\ fpc' = "cleared"
  /\ UNCHANGED <<otherVars, winVars, dpyVars, surfVars, sVars, dVars, gpc,
                 renderHist,
                 geomHist, histVars>>

\* gst_wl_window_finalize lines 431-464: the staged buffer is released, the
\* protocol objects are destroyed and the instance is freed.
FinalizeRelease ==
  /\ fpc = "cleared"
  /\ fpc' = "freed"
  /\ refs' = IF staged_buffer # NULL
               THEN [refs EXCEPT ![staged_buffer] = @ - 1] ELSE refs
  /\ UNCHANGED <<otherVars, winVars, dpyVars, surfVars, sVars, dVars, gpc,
                 renderHist,
                 geomHist, nCommit, nMap,
                 presented, infoSt, usedAfterClear>>

\* ------------------------------------------------------------------ spec
Next ==
  \/ \E arg \in RenderArgs : RenderCall(arg[1], arg[2])
  \/ RenderWake
  \/ RenderWakeDestroyed
  \/ CommitCallback
  \/ FrameRedrawCallback
  \/ FrameRedrawCheck
  \/ CommitBufferEnter
  \/ CommitBufferBody
  \/ XdgSurfaceConfigure
  \/ DisplayLost
  \/ HandshakeAcked
  \/ HandshakeTimeout
  \/ \E r \in Rects : SetRenderRectangle(r)
  \/ UpdateGeometryLock
  \/ UpdateGeometryCommit
  \/ FinalizeWake
  \/ FinalizeClear
  \/ FinalizeRelease

Spec == Init /\ [][Next]_vars

\* The same window on a display with or without the viewporter.
InitBorders ==
  /\ InitWindow
  /\ ReleaseIdle /\ CropIdle /\ ShellOfWindow /\ SettersIdle /\ SinkOfWindow
  /\ ExtraIdleAny
  /\ has_viewporter \in BOOLEAN

SpecBorders == InitBorders /\ [][Next]_vars

\* --------------------------------------------------------------- locking
\* The steps that run between g_mutex_lock (&priv->window_lock) and the
\* matching unlock: the body of gst_wl_window_render (lines 993-1018, the
\* lock is given up only inside g_cond_wait), the read of next_buffer in
\* commit_callback (969-971) and the promotion in frame_redraw_callback
\* (868-873).  The rest of frame_redraw_callback and all of
\* gst_wl_window_commit_buffer run after the unlock.
HoldsWindowLock ==
  \/ \E arg \in RenderArgs : RenderCall(arg[1], arg[2])
  \/ RenderWake
  \/ CommitCallback
  \/ FrameRedrawCallback

\* ------------------------------------------------ a live display connection
\* The streaming thread and the dispatch thread on a window whose display
\* stays connected and that is not finalized.
InitLive == InitWindow /\ gpc = "idle" /\ InitOther

NextLive ==
  \/ \E arg \in RenderArgs : RenderCall(arg[1], arg[2])
  \/ RenderWake
  \/ CommitCallback
  \/ FrameRedrawCallback
  \/ FrameRedrawCheck
  \/ CommitBufferEnter
  \/ CommitBufferBody

\* The display delivers every requested callback (wl_display dispatch), a
\* callback that has started runs to its end, and a signalled g_cond_wait
\* returns.
SpecLive ==
  /\ InitLive
  /\ [][NextLive]_vars
  /\ WF_vars(CommitCallback)
  /\ WF_vars(FrameRedrawCallback)
  /\ WF_vars(FrameRedrawCheck)
  /\ WF_vars(CommitBufferEnter)
  /\ WF_vars(CommitBufferBody)
  /\ WF_vars(RenderWake)

\* ------------------------------------------------------------ constructor
\* A constructor that looks for the fullscreen shell before the xdg shell.
NewToplevel_PrefersFullscreenShell ==
  /\ gpc = "new"
  /\ IF has_fullscreen_shell
       THEN /\ shell' = "fullscreen_shell"
            /\ gpc' = "idle"
            /\ UNCHANGED <<configured, xdg_fullscreen>>
       ELSE IF has_xdg_wm_base /\ shell_objs = "ok"
       THEN /\ shell' = "xdg"
            /\ xdg_fullscreen' = fullscreen
            /\ configured' = FALSE
            /\ gpc' = "handshake"
       ELSE /\ gpc' = "failed"
            /\ UNCHANGED <<shell, configured, xdg_fullscreen>>
  /\ UNCHANGED <<redraw_pending, next_buffer, staged_buffer, next_video_info,
                 clear_window, is_area_surface_mapped, render_rectangle,
                 scaled_width, commit_lock, dpyVars, surfVars, sVars, dVars,
                 fpc, renderHist, geomHist, histVars, relVars, cropVars,
                 capVars,
                 buffer_transform, scale, setCall, sinkVars, lockVars, extraVars>>

\* gst_wl_window_new_toplevel (gst-libs) lines 559-666 up to the handshake:
\* with xdg_wm_base the xdg surface and toplevel are created (failure ends
\* the constructor with NULL), configured is cleared, the area surface
\* committed and the wait for the configure event begins; otherwise the
\* fullscreen shell presents the surface; with neither the constructor
\* fails and returns NULL.
NewToplevel ==
  /\ gpc = "new"
  /\ IF has_xdg_wm_base
       THEN IF shell_objs = "ok"
              THEN /\ shell' = "xdg"
                   /\ xdg_fullscreen' = fullscreen
                   /\ configured' = FALSE
                   /\ gpc' = "handshake"
              ELSE /\ gpc' = "failed"
                   /\ UNCHANGED <<shell, configured, xdg_fullscreen>>
       ELSE IF has_fullscreen_shell
       THEN /\ shell' = "fullscreen_shell"
            /\ gpc' = "idle"
            /\ UNCHANGED <<configured, xdg_fullscreen>>
       ELSE /\ gpc' = "failed"
            /\ UNCHANGED <<shell, configured, xdg_fullscreen>>
  /\ UNCHANGED <<redraw_pending, next_buffer, staged_buffer, next_video_info,
                 clear_window, is_area_surface_mapped, render_rectangle,
                 scaled_width, commit_lock, dpyVars, surfVars, sVars, dVars,
                 fpc, renderHist, geomHist, histVars, relVars, cropVars,
                 capVars,
                 buffer_transform, scale, setCall, sinkVars, lockVars, extraVars>>

\* gst_wl_window_new_toplevel (ext/wayland/wlwindow.c) lines 467-572: the
\* same with wl_shell tried between the xdg shell and the fullscreen shell.
ExtNewToplevel ==
  /\ gpc = "new"
  /\ IF has_xdg_wm_base
       THEN IF shell_objs = "ok"
              THEN /\ shell' = "xdg"
                   /\ xdg_fullscreen' = fullscreen
                   /\ configured' = FALSE
                   /\ gpc' = "handshake"
              ELSE /\ gpc' = "failed"
                   /\ UNCHANGED <<shell, configured, xdg_fullscreen>>
       ELSE IF has_wl_shell
       THEN IF shell_objs = "ok"
              THEN /\ shell' = "wl_shell"
                   /\ gpc' = "idle"
                   /\ UNCHANGED <<configured, xdg_fullscreen>>
              ELSE /\ gpc' = "failed"
                   /\ UNCHANGED <<shell, configured, xdg_fullscreen>>
       ELSE IF has_fullscreen_shell
       THEN /\ shell' = "fullscreen_shell"
            /\ gpc' = "idle"
            /\ UNCHANGED <<configured, xdg_fullscreen>>
       ELSE /\ gpc' = "failed"
            /\ UNCHANGED <<shell, configured, xdg_fullscreen>>
  /\ UNCHANGED <<redraw_pending, next_buffer, staged_buffer, next_video_info,
                 clear_window, is_area_surface_mapped, render_rectangle,
                 scaled_width, commit_lock, dpyVars, surfVars, sVars, dVars,
                 fpc, renderHist, geomHist, histVars, relVars, cropVars,
                 capVars,
                 buffer_transform, scale, setCall, sinkVars, lockVars, extraVars>>

\* Before the constructor runs: gst_wl_window_init has set the fields, the
\* display's globals are whatever the compositor advertises.
InitNew ==
  /\ gpc = "new"
  /\ configured = TRUE
  /\ InitFields
  /\ ReleaseIdle
  /\ CropIdle
  /\ has_xdg_wm_base \in BOOLEAN
  /\ has_wl_shell \in BOOLEAN
  /\ has_fullscreen_shell \in BOOLEAN
  /\ shell_objs \in {"ok", "fail"}
  /\ fullscreen \in BOOLEAN
  /\ shell = "unset"
  /\ SettersIdle
  /\ SinkOfWindow
  /\ ExtraIdle

\* The constructor, the configure event, and the geometry calls made on the
\* window it returns.
NextNew ==
  \/ NewToplevel
  \/ ExtNewToplevel
  \/ XdgSurfaceConfigure
  \/ HandshakeAcked
  \/ HandshakeTimeout
  \/ \E r \in Rects : SetRenderRectangle(r)
  \/ UpdateGeometryLock
  \/ UpdateGeometryCommit

\* g_cond_wait_until returns at the latest when its deadline passes, so the
\* wait of the handshake cannot last forever.
SpecNew ==
  InitNew /\ [][NextNew]_vars /\ WF_vars(HandshakeAcked \/ HandshakeTimeout)

\* ---------------------------------------------------------------- setters
\* GstVideoOrientationMethod
Methods == {"identity", "90r", "180", "90l", "horiz", "vert", "ul-lr", "ur-ll"}
Scales == 1..MaxScale

\* output_transform_from_orientation_method lines 1185-1208
OutputTransformFromOrientationMethod(method) ==
  CASE method = "identity" -> "normal"
    [] method = "90r" -> "90"
    [] method = "180" -> "180"
    [] method = "90l" -> "270"
    [] method = "horiz" -> "flipped"
    [] method = "vert" -> "flipped_180"
    [] method = "ul-lr" -> "flipped_90"
    [] method = "ur-ll" -> "flipped_270"

\* gst_wl_window_update_geometry lines 1098-1107 as every setter enters it:
\* the borders are redrawn if the area surface is mapped, and the commit
\* path ("geom_check") is entered if the window is configured.
EnterUpdateGeometry ==
  /\ UpdateGeometryBorders(render_rectangle)
  /\ area_pending' = IF is_area_surface_mapped THEN {render_rectangle}
                                               ELSE area_pending
  /\ gpc' = IF configured THEN "geom_check" ELSE "idle"
  /\ UNCHANGED <<configured, redraw_pending, next_buffer, staged_buffer,
                 next_video_info, clear_window, is_area_surface_mapped,
                 render_rectangle, scaled_width, commit_lock, dpyVars,
                 area_applied, video_pending, video_applied, video_sync_mode,
                 sVars, dVars,
                 fpc, renderHist, geomHist, histVars, relVars, cropVars,
                 newVars, sinkVars, lockVars, extraNoBorder>>

\* gst_wl_window_set_rotate_method lines 1210-1219
SetRotateMethod(method) ==
  /\ gpc = "idle"
  /\ fpc = "alive"
  /\ buffer_transform' = OutputTransformFromOrientationMethod(method)
  /\ setCall' = "rotate_method"
  /\ EnterUpdateGeometry
  /\ UNCHANGED <<scale, xdg_fullscreen>>

\* gst_wl_window_set_scale lines 1221-1229
SetScale(n) ==
  /\ gpc = "idle"
  /\ fpc = "alive"
  /\ scale' = n
  /\ setCall' = "scale"
  /\ EnterUpdateGeometry
  /\ UNCHANGED <<buffer_transform, xdg_fullscreen>>

\* gst_wl_window_ensure_fullscreen lines 545-556, on a window that has an
\* xdg toplevel: the request is sent, no field of the window changes.
EnsureFullscreen(f) ==
  /\ gpc = "idle"
  /\ fpc = "alive"
  /\ shell = "xdg"
  /\ xdg_fullscreen' = f
  /\ setCall' = "fullscreen"
  /\ UNCHANGED <<windowVars, relVars, cropVars, newVars, buffer_transform,
                 scale, sinkVars, lockVars, extraVars>>

\* A constructed window, its configure event and the setters.
NextSetters ==
  \/ XdgSurfaceConfigure
  \/ HandshakeAcked
  \/ HandshakeTimeout
  \/ \E r \in Rects : SetRenderRectangle(r)
  \/ \E method \in Methods : SetRotateMethod(method)
  \/ \E n \in Scales : SetScale(n)
  \/ \E f \in BOOLEAN : EnsureFullscreen(f)
  \/ UpdateGeometryLock
  \/ UpdateGeometryCommit

SpecSetters == Init /\ [][NextSetters]_vars

\* ------------------------------------------------------------------- sink
\* gst_wayland_sink_find_display lines 390-441: keep the display the sink
\* has, else take the application's, else open the sink's own.
FindDisplay ==
  IF sink_display # "none" THEN sink_display
  ELSE IF appContext THEN "external"
  ELSE "own"

\* The shell gst_wl_window_new_toplevel of ext/wayland/wlwindow.c picks on a
\* display that has one (lines 467-545).
ToplevelShell ==
  IF has_xdg_wm_base THEN "xdg"
  ELSE IF has_wl_shell THEN "wl_shell"
  ELSE "fullscreen_shell"

\* gst_wl_window_is_toplevel of ext/wayland/wlwindow.c lines 615-623: the
\* window has an xdg toplevel or, without xdg_wm_base, a wl_shell surface.
IsToplevel ==
  IF has_xdg_wm_base THEN shell = "xdg" ELSE shell = "wl_shell"

\* gst_wayland_sink_change_state, GST_STATE_CHANGE_NULL_TO_READY
NullToReady ==
  /\ sink_state = "NULL"
  /\ sink_display' = FindDisplay
  /\ sink_state' = "READY"
  /\ UNCHANGED <<sink_window, appContext, shell, notSinkVars, redrawVars, fsVars>>

\* GST_STATE_CHANGE_READY_TO_PAUSED: nothing of the sink's changes
ReadyToPaused ==
  /\ sink_state = "READY"
  /\ sink_state' = "PAUSED"
  /\ UNCHANGED <<sink_display, sink_window, appContext, shell, notSinkVars,
                 redrawVars, fsVars>>

\* GST_STATE_CHANGE_PAUSED_TO_PLAYING
PausedToPlaying ==
  /\ sink_state = "PAUSED"
  /\ sink_state' = "PLAYING"
  /\ UNCHANGED <<sink_display, sink_window, appContext, shell, notSinkVars,
                 redrawVars, fsVars>>

\* GST_STATE_CHANGE_PLAYING_TO_PAUSED
PlayingToPaused ==
  /\ sink_state = "PLAYING"
  /\ sink_state' = "PAUSED"
  /\ UNCHANGED <<sink_display, sink_window, appContext, shell, notSinkVars,
                 redrawVars, fsVars>>

\* gst_wayland_sink_set_window_handle lines 1089-1131 with a surface: ignored
\* if the sink has a window; otherwise the display is looked up and, unless
\* it is the sink's own, the window is created inside the surface.
SetWindowHandle ==
  /\ sink_state # "crashed"
  /\ IF sink_window # "none"
       THEN UNCHANGED <<sink_display, sink_window>>
       ELSE /\ sink_display' = FindDisplay
            /\ sink_window' = IF FindDisplay = "own" THEN "none" ELSE "embedded"
  /\ UNCHANGED <<sink_state, appContext, shell, notSinkVars, redrawVars, fsVars>>

\* render_last_buffer lines 789-809: redraw_pending is set and a frame
\* callback requested on the window's surface.
RenderLastBuffer ==
  /\ sink_redraw_pending' = TRUE
  /\ sink_frame_cb' = TRUE

\* gst_wayland_sink_show_frame: without a window the sink makes a toplevel
\* one on its display (lines 839-854); it waits while redraw_pending is set
\* (856-857); then it fails (a window without a size, a buffer that cannot
\* be shown) or keeps the buffer and renders it (1021-1022).
ShowFrame ==
  /\ sink_state \in {"PAUSED", "PLAYING"}
  /\ ~sink_wait
  /\ IF sink_window = "none"
       THEN /\ sink_window' = "toplevel"
            /\ shell' = ToplevelShell
            /\ fs_request' = CASE ToplevelShell = "xdg" -> "xdg_toplevel"
                                [] ToplevelShell = "wl_shell" -> "wl_shell_surface"
                                [] OTHER -> fs_request
       ELSE UNCHANGED <<sink_window, shell, fs_request>>
  /\ IF sink_redraw_pending
       THEN /\ sink_wait' = TRUE
            /\ UNCHANGED <<sink_redraw_pending, sink_last_buffer,
                           sink_frame_cb>>
       ELSE \/ /\ RenderLastBuffer
               /\ sink_last_buffer' = TRUE
               /\ UNCHANGED sink_wait
            \/ UNCHANGED redrawVars
  /\ UNCHANGED <<sink_state, sink_display, appContext, notSinkVars>>

\* gst_wayland_sink_show_frame lines 856-857 and on: g_cond_wait returns
\* once redraw_pending is clear.
ShowFrameWake ==
  /\ sink_state # "crashed"
  /\ sink_wait
  /\ ~sink_redraw_pending
  /\ sink_wait' = FALSE
  /\ \/ /\ RenderLastBuffer
        /\ sink_last_buffer' = TRUE
     \/ UNCHANGED <<sink_redraw_pending, sink_last_buffer, sink_frame_cb>>
  /\ UNCHANGED <<sinkVars, shell, notSinkVars, fsVars>>

\* frame_redraw_callback lines 769-782, delivered for a callback that is
\* outstanding on a surface that exists.
SinkFrameRedrawCallback ==
  /\ sink_state # "crashed"
  /\ sink_frame_cb
  /\ sink_frame_cb' = FALSE
  /\ sink_redraw_pending' = FALSE
  /\ UNCHANGED <<sinkVars, shell, notSinkVars, sink_last_buffer, sink_wait,
                 fsVars>>

\* gst_wayland_sink_expose lines 1155-1169.
Expose ==
  /\ sink_state # "crashed"
  /\ IF sink_last_buffer /\ ~sink_redraw_pending
       THEN RenderLastBuffer
       ELSE UNCHANGED <<sink_redraw_pending, sink_frame_cb>>
  /\ UNCHANGED <<sinkVars, shell, notSinkVars, sink_last_buffer, sink_wait,
                 fsVars>>

\* gst_wl_window_ensure_fullscreen of ext/wayland/wlwindow.c lines 447-465:
\* the handle the request is issued on.  With xdg_wm_base on the display it
\* is window->xdg_toplevel, otherwise window->wl_shell_surface; either is
\* NULL unless the window created it.
EnsureFullscreenHandle ==
  IF has_xdg_wm_base
    THEN IF shell = "xdg" THEN "xdg_toplevel" ELSE "null"
    ELSE IF shell = "wl_shell" THEN "wl_shell_surface" ELSE "null"

\* gst_wayland_sink_set_fullscreen lines 264-274 (the "fullscreen"
\* property): nothing for the value the sink has; otherwise the value is
\* stored and gst_wl_window_ensure_fullscreen called on sink->window, which
\* returns for no window and issues the request otherwise.  A request on a
\* NULL handle dereferences it in the protocol library: the behaviour is
\* undefined, the process goes on or dies.
SetFullscreen(f) ==
  /\ sink_state # "crashed"
  /\ f # fullscreen
  /\ fullscreen' = f
  /\ IF sink_window = "none"
       THEN UNCHANGED <<fs_request, sink_state>>
       ELSE /\ fs_request' = EnsureFullscreenHandle
            /\ IF EnsureFullscreenHandle = "null"
                 THEN sink_state' \in {sink_state, "crashed"}
                 ELSE UNCHANGED sink_state
  /\ UNCHANGED <<sink_display, sink_window, appContext, shell, windowVars,
                 relVars, cropVars, has_xdg_wm_base, has_wl_shell,
                 has_fullscreen_shell, shell_objs, setterVars, lockVars,
                 hsVars, redrawVars, geoVars>>

\* GST_STATE_CHANGE_PAUSED_TO_READY lines 468-483: a window for which
\* gst_wl_window_is_toplevel holds is destroyed, any other is cleared with
\* gst_wl_window_render (window, NULL, NULL) and kept.
PausedToReady ==
  /\ sink_state = "PAUSED"
  /\ ~sink_wait
  /\ sink_state' = "READY"
  /\ sink_last_buffer' = FALSE
  /\ IF sink_window # "none" /\ IsToplevel
       THEN /\ sink_window' = "none"
            /\ shell' = "unset"
            /\ sink_frame_cb' = FALSE
       ELSE UNCHANGED <<sink_window, shell, sink_frame_cb>>
  /\ UNCHANGED <<sink_display, appContext, notSinkVars, sink_redraw_pending,
                 sink_wait, fsVars>>

\* GST_STATE_CHANGE_READY_TO_NULL lines 484-512: the display is released if
\* the sink has one and has no window.
ReadyToNull ==
  /\ sink_state = "READY"
  /\ sink_state' = "NULL"
  /\ sink_display' = IF sink_display # "none" /\ sink_window = "none"
                       THEN "none" ELSE sink_display
  /\ sink_redraw_pending' = IF sink_display # "none" /\ sink_window = "none"
                              THEN FALSE ELSE sink_redraw_pending
  /\ UNCHANGED <<sink_window, appContext, shell, notSinkVars,
                 sink_last_buffer, sink_frame_cb, sink_wait, fsVars>>

\* A new sink (gst_wayland_sink_init): state NULL, no display, no window;
\* the compositor offers at least one shell.
InitSink ==
  /\ InitWindow
  /\ gpc = "idle"
  /\ ReleaseIdle
  /\ CropIdle
  /\ SettersIdle
  /\ has_xdg_wm_base \in BOOLEAN
  /\ has_wl_shell \in BOOLEAN
  /\ has_fullscreen_shell \in BOOLEAN
  /\ has_xdg_wm_base \/ has_wl_shell \/ has_fullscreen_shell
  /\ shell_objs = "ok"
  /\ fullscreen \in BOOLEAN
  /\ shell = "unset"
  /\ sink_state = "NULL"
  /\ sink_display = "none"
  /\ sink_window = "none"
  /\ appContext \in BOOLEAN
  /\ ExtraIdle

NextSink ==
  \/ NullToReady
  \/ ReadyToPaused
  \/ PausedToPlaying
  \/ PlayingToPaused
  \/ SetWindowHandle
  \/ ShowFrame
  \/ ShowFrameWake
  \/ SinkFrameRedrawCallback
  \/ Expose
  \/ \E f \in BOOLEAN : SetFullscreen(f)
  \/ PausedToReady
  \/ ReadyToNull

SpecSink == InitSink /\ [][NextSink]_vars

\* ------------------------------------- handshake under the render lock
\* ext/wayland/wlwindow.c line 41 (gstwlwindow.c line 119)
RESIZE_MARGIN == 20
\* widths and heights an xdg_toplevel configure event carries: 0 (the
\* client chooses), the largest size the handler ignores, and a larger one
ConfigureSizes == {0, 2 * RESIZE_MARGIN, 2 * RESIZE_MARGIN + 1}

\* handle_xdg_toplevel_configure line 183: sizes the handler ignores.
ConfigureIgnored ==
  cfg_width <= 2 * RESIZE_MARGIN \/ cfg_height <= 2 * RESIZE_MARGIN

\* gst_wayland_sink_show_frame lines 835-849 has locked render_lock and is
\* inside gst_wl_window_new_toplevel, which has committed the xdg surface
\* (ext/wayland/wlwindow.c lines 508-510) and waits for configured.
InitHandshake ==
  /\ InitWindow
  /\ gpc = "handshake"
  /\ ReleaseIdle
  /\ CropIdle
  /\ ShellOfWindow
  /\ SettersIdle
  /\ sink_state = "PAUSED"
  /\ sink_display = "own"
  /\ sink_window = "none"
  /\ appContext = FALSE
  /\ render_lock = "S"
  /\ cfg_state = "none"
  /\ cfg_width = 0
  /\ cfg_height = 0
  /\ RedrawIdle
  /\ fs_request = "xdg_toplevel"
  /\ has_viewporter = TRUE
  /\ ViewportIdle /\ BordersIdle /\ ScaleIdle

\* The compositor answers the commit with a toplevel-configure of some size
\* followed by a surface-configure; the dispatch thread reads the events.
CompositorConfigures(width, height) ==
  /\ cfg_state = "none"
  /\ connected
  /\ cfg_state' = "pending"
  /\ cfg_width' = width
  /\ cfg_height' = height
  /\ UNCHANGED <<windowVars, relVars, cropVars, newVars, setterVars,
                 sinkVars, lockVars, render_lock,
                 redrawVars, fsVars, geoVars>>

\* handle_xdg_toplevel_configure lines 183-184: a size within the resize
\* margins is ignored.
XdgToplevelConfigureReturn ==
  /\ cfg_state = "pending"
  /\ dpc = "idle"
  /\ connected
  /\ ConfigureIgnored
  /\ cfg_state' = "handled"
  /\ UNCHANGED <<windowVars, relVars, cropVars, newVars, setterVars,
                 sinkVars, lockVars, render_lock, cfg_width, cfg_height,
                 redrawVars, fsVars, geoVars>>

\* handle_xdg_toplevel_configure line 186: g_mutex_lock (render_lock)
\* returns once no other thread holds the lock.
XdgToplevelConfigureLock ==
  /\ cfg_state = "pending"
  /\ dpc = "idle"
  /\ connected
  /\ ~ConfigureIgnored
  /\ render_lock = "none"
  /\ render_lock' = "D"
  /\ cfg_state' = "locked"
  /\ UNCHANGED <<windowVars, relVars, cropVars, newVars, setterVars,
                 sinkVars, lockVars, cfg_width, cfg_height,
                 redrawVars, fsVars, geoVars>>

\* handle_xdg_toplevel_configure line 187.
XdgToplevelConfigureSet ==
  /\ cfg_state = "locked"
  /\ \E r \in Rects \ {0} : SetRenderRectangleBody(r)
  /\ cfg_state' = "set"
  /\ UNCHANGED <<render_lock, cfg_width, cfg_height, redrawVars, fsVars,
                 vpVars, scaleVars>>

\* handle_xdg_toplevel_configure line 188, once set_render_rectangle and
\* the geometry update it started have returned.
XdgToplevelConfigureUnlock ==
  /\ cfg_state = "set"
  /\ render_lock = "D"
  /\ gpc = "idle"
  /\ render_lock' = "none"
  /\ cfg_state' = "handled"
  /\ UNCHANGED <<windowVars, relVars, cropVars, newVars, setterVars,
                 sinkVars, lockVars, cfg_width, cfg_height,
                 redrawVars, fsVars, geoVars>>

\* handle_xdg_surface_configure lines 195-207, the event queued after the
\* toplevel-configure.
QueuedSurfaceConfigure == cfg_state = "handled" /\ XdgSurfaceConfigure

\* gst_wl_window_new_toplevel lines 546-565 after the wait: the window
\* is not fullscreen, so the constructor sets the render rectangle to the
\* video size.
NewToplevelSetsRectangle ==
  /\ render_lock = "S"
  /\ sink_window = "none"
  /\ lastSet = "none"
  /\ \E r \in Rects \ {0} : SetRenderRectangle(r)

\* gst_wayland_sink_show_frame line 848 stores the window the constructor
\* returned.
ShowFrameWindowMade ==
  /\ render_lock = "S"
  /\ sink_window = "none"
  /\ gpc = "idle"
  /\ lastSet # "none"
  /\ sink_window' = "toplevel"
  /\ UNCHANGED <<sink_state, sink_display, appContext, notSinkVars, shell,
                 redrawVars, fsVars>>

\* gst_wayland_sink_show_frame line 1076.
ShowFrameUnlock ==
  /\ render_lock = "S"
  /\ sink_window = "toplevel"
  /\ render_lock' = "none"
  /\ UNCHANGED <<windowVars, relVars, cropVars, newVars, setterVars,
                 sinkVars, lockVars, cfg_state, cfg_width, cfg_height,
                 redrawVars, fsVars, geoVars>>

\* What the dispatch thread can do next with the events of the handshake.
DispatchStep ==
  \/ XdgToplevelConfigureReturn
  \/ XdgToplevelConfigureLock
  \/ QueuedSurfaceConfigure

NextHandshake ==
  \/ \E width, height \in ConfigureSizes : CompositorConfigures(width, height)
  \/ XdgToplevelConfigureReturn
  \/ XdgToplevelConfigureLock
  \/ XdgToplevelConfigureSet
  \/ XdgToplevelConfigureUnlock
  \/ QueuedSurfaceConfigure
  \/ HandshakeAcked
  \/ HandshakeTimeout
  \/ NewToplevelSetsRectangle
  \/ UpdateGeometryLock
  \/ UpdateGeometryCommit
  \/ ShowFrameWindowMade
  \/ ShowFrameUnlock
  \/ DisplayLost

SpecHandshake == InitHandshake /\ [][NextHandshake]_vars

\* ------------------------------------------------------------ source crop
\* A set_source_crop that leaves the stored crop alone when the buffer has
\* no crop metadata.
SetSourceCrop_KeepsOld(hasCrop, crop) ==
  /\ cropCall' = IF hasCrop THEN "crop" ELSE "nocrop"
  /\ cropArg' = IF hasCrop THEN crop ELSE <<0, 0, 0, 0>>
  /\ IF hasCrop
       THEN /\ src_x' = crop[1]
            /\ src_y' = crop[2]
            /\ src_width' = crop[3]
            /\ src_height' = crop[4]
       ELSE UNCHANGED <<src_x, src_y, src_width, src_height>>
  /\ UNCHANGED notCropVars

\* gst_wl_window_set_source_crop lines 1141-1158: with crop metadata on
\* the buffer its x, y, width and height are stored; without, src_width is
\* set to -1 and the other three fields are left as they are.
SetSourceCrop(hasCrop, crop) ==
  /\ cropCall' = IF hasCrop THEN "crop" ELSE "nocrop"
  /\ cropArg' = IF hasCrop THEN crop ELSE <<0, 0, 0, 0>>
  /\ IF hasCrop
       THEN /\ src_x' = crop[1]
            /\ src_y' = crop[2]
            /\ src_width' = crop[3]
            /\ src_height' = crop[4]
       ELSE /\ src_width' = SrcWidthUnset
            /\ UNCHANGED <<src_x, src_y, src_height>>
  /\ UNCHANGED notCropVars

InitCrop == InitWindow /\ gpc = "idle" /\ InitOther

NextCrop ==
  \E hasCrop \in BOOLEAN : \E crop \in CropRects : SetSourceCrop(hasCrop, crop)

SpecCrop == InitCrop /\ [][NextCrop]_vars

\* ----------------------------------------------------- video viewport
\* wl_fixed_from_int of wayland-util.h: 24.8 fixed point
wl_fixed_from_int(i) == i * 256

\* The quotient of C's int division, which truncates towards zero
\* (gst_wl_window_resize_video_surface lines 781-784: x / priv->scale).
CDiv(a, b) == IF a >= 0 THEN a \div b ELSE -((-a) \div b)

\* gst_wl_window_resize_video_surface lines 786-805: the transforms that
\* exchange width and height.
Rotated(transform) == transform \in {"90", "270", "flipped_90", "flipped_270"}

\* gst_wl_window_resize_video_surface lines 773-830 as its callers run it:
\* gst_wl_window_commit_buffer for a buffer with a video info (lines
\* 896-903), which stores the video size first and does not ask for a
\* commit, and gst_wl_window_update_geometry (lines 1109-1113) once the
\* video size is known, which does.  The source crop is divided by the
\* scale; the video surface gets its destination and position for the
\* render rectangle; with a video viewport its source rectangle is set if
\* neither the width nor the height equals wl_fixed_from_int (-1 / scale).
ResizeVideoSurface(commit) ==
  LET unset == wl_fixed_from_int(CDiv(-1, scale))
      x == wl_fixed_from_int(CDiv(src_x, scale))
      y == wl_fixed_from_int(CDiv(src_y, scale))
      w == wl_fixed_from_int(CDiv(src_width, scale))
      h == wl_fixed_from_int(CDiv(src_height, scale))
      width == IF Rotated(buffer_transform) THEN h ELSE w
      height == IF Rotated(buffer_transform) THEN w ELSE h
  IN /\ gpc = "idle"
     /\ dpc = "idle"
     /\ IF commit
          THEN /\ scaled_width # 0
               /\ UNCHANGED scaled_width
          ELSE scaled_width' = ScaledWidth(1)
     /\ viewport_source' = IF has_viewporter /\ width # unset /\ height # unset
                             THEN <<x, y, width, height>>
                             ELSE viewport_source
     /\ video_pending' = {render_rectangle}
     /\ video_applied' = IF commit THEN {render_rectangle} ELSE video_applied
     /\ UNCHANGED <<configured, redraw_pending, next_buffer, staged_buffer,
                    next_video_info, clear_window, is_area_surface_mapped,
                    render_rectangle, commit_lock,
                    dpyVars, area_pending, area_applied,
                    video_sync_mode, sVars, dVars, gVars, renderHist,
                    geomHist, histVars, relVars, cropVars, newVars,
                    setterVars, sinkVars, lockVars, hsVars, redrawVars,
                    fsVars, has_viewporter, borderVars, scaleVars>>

\* A configured window with or without the viewporter, at any scale,
\* rotated or not.
InitViewport ==
  /\ InitWindow
  /\ gpc = "idle"
  /\ ReleaseIdle /\ CropIdle /\ ShellOfWindow /\ SinkOfWindow
  /\ buffer_transform \in {"normal", "90"}
  /\ scale \in Scales
  /\ xdg_fullscreen = FALSE
  /\ setCall = IF buffer_transform = "normal" THEN "none" ELSE "rotate_method"
  /\ HandshakeIdle /\ RedrawIdle /\ fs_request = "none"
  /\ has_viewporter \in BOOLEAN
  /\ ViewportIdle /\ BordersIdle /\ ScaleIdle

\* The sink's show_frame sets the crop of each buffer (gstwaylandsink.c line
\* 863); commit_buffer and update_geometry resize the video surface.
NextViewport ==
  \/ \E hasCrop \in BOOLEAN : \E crop \in CropRects :
       SetSourceCrop(hasCrop, crop)
  \/ \E commit \in BOOLEAN : ResizeVideoSurface(commit)

SpecViewport == InitViewport /\ [][NextViewport]_vars

\* ------------------------------------------------- construction: scale
\* sizes <<width, height>> the display reports; <<0, 0>> before any output
\* mode is known
DisplaySizes == {<<0, 0>>, <<4, 40>>, <<8, 40>>, <<12, 40>>}
\* what gst_wl_init_surface_state finds in weston.ini: no readable "size"
\* entry of the [shell] section, or the desktop size it names
DesktopSizes == {<<>>, <<0, 40>>, <<4, 40>>, <<8, 40>>}
\* the values int division by zero can yield where it does not trap
DivByZeroResults == 0..MaxScale

\* gst_wl_window_new_internal lines 530-537, the fallback taken when
\* gst_wl_init_surface_state fails.
ScaleFallback ==
  /\ fullscreen_width' = display_size[1]
  /\ fullscreen_height' = display_size[2] - PANEL_HEIGH
  /\ scale' = 1
  /\ gpc' = "idle"

\* gst_wl_init_surface_state (gstwlutils.c lines 40-149) from the point
\* where the scale q = display_width / desktop_width has been stored by
\* gst_wl_window_set_scale (line 130): a scale other than 1 and 2 fails,
\* any other sets the fullscreen size from the desktop size.
ScaleComputed(q) ==
  IF q # 1 /\ q # 2
    THEN ScaleFallback
    ELSE /\ scale' = q
         /\ fullscreen_width' = desktop_size[1]
         /\ fullscreen_height' = desktop_size[2] - PANEL_HEIGH
         /\ gpc' = "idle"

\* gst_wl_window_new_internal lines 530-540 with gst_wl_init_surface_state:
\* without a desktop size from weston.ini, or with a display size that is
\* not positive, the fallback is taken; otherwise the scale is computed.
\* A desktop width of 0 makes the division undefined: the process dies or
\* goes on with some quotient.  The geometry updates the setters trigger
\* find an unmapped window without video size and commit an area surface
\* without content.  The setup that follows is that of
\* gst_wl_window_new_in_surface (lines 668-694), which creates no shell
\* object and leaves the window configured.
NewInternal ==
  /\ gpc = "init"
  /\ IF desktop_size = <<>> \/ display_size[1] <= 0 \/ display_size[2] <= 0
       THEN ScaleFallback
       ELSE IF desktop_size[1] = 0
              THEN \/ /\ gpc' = "crashed"
                      /\ UNCHANGED <<scale, fullscreen_width, fullscreen_height>>
                   \/ \E q \in DivByZeroResults : ScaleComputed(q)
              ELSE ScaleComputed(CDiv(display_size[1], desktop_size[1]))
  /\ UNCHANGED <<winVars, dpyVars, surfVars, sVars, dVars, fpc, renderHist,
                 geomHist, histVars, relVars, cropVars, newVars,
                 buffer_transform, xdg_fullscreen, setCall, sinkVars,
                 lockVars, hsVars, redrawVars, fsVars, vpVars, borderVars,
                 display_size, desktop_size>>

\* gst_wl_window_init has run (scale 1 and no fullscreen size, lines
\* 406-408), the constructor has not.
InitScale ==
  /\ gpc = "init"
  /\ configured = TRUE
  /\ InitFields
  /\ ReleaseIdle /\ CropIdle /\ SettersIdle /\ SinkOfWindow
  /\ has_xdg_wm_base = FALSE
  /\ has_wl_shell = FALSE
  /\ has_fullscreen_shell = TRUE
  /\ shell_objs = "ok"
  /\ fullscreen = FALSE
  /\ shell = "unset"
  /\ HandshakeIdle /\ RedrawIdle /\ fs_request = "none"
  /\ has_viewporter = TRUE
  /\ ViewportIdle /\ BordersIdle
  /\ display_size \in DisplaySizes
  /\ desktop_size \in DesktopSizes
  /\ fullscreen_width = -1
  /\ fullscreen_height = -1

\* The constructor, then the scale setter and the geometry updates it
\* starts.
NextScale ==
  \/ NewInternal
  \/ \E n \in Scales : SetScale(n)
  \/ UpdateGeometryLock
  \/ UpdateGeometryCommit

SpecScale == InitScale /\ [][NextScale]_vars

\* ------------------------------------------- buffer release (explicit sync)
\* gst_wl_window_commit_buffer lines 909-923 on a display with the
\* explicit-sync extension: a buffer the compositor does not hold gets a
\* release object with buffer_release_listener, and is attached, whereby the
\* wrapper marks it used by the compositor and takes a hold on the media
\* buffer for it.
AttachBuffer(b) ==
  /\ ~used_by_compositor[b]
  /\ relEvents[b] < MaxAttach
  /\ buffer_release' = [buffer_release EXCEPT ![b] = 1]
  /\ used_by_compositor' = [used_by_compositor EXCEPT ![b] = TRUE]
  /\ gst_hold' = [gst_hold EXCEPT ![b] = @ + 1]
  /\ UNCHANGED <<relEvents, relUnrefs, notRelVars>>

\* buffer_fenced_release lines 326-348: the release object must be the
\* buffer's (g_assert); used_by_compositor is cleared, the release object
\* destroyed and set to NULL; only if fence > 0 the fence is waited for and
\* closed and the media buffer unreffed.
BufferFencedRelease(b, fence) ==
  /\ buffer_release[b] # NULL
  /\ used_by_compositor' = [used_by_compositor EXCEPT ![b] = FALSE]
  /\ buffer_release' = [buffer_release EXCEPT ![b] = NULL]
  /\ relEvents' = [relEvents EXCEPT ![b] = @ + 1]
  /\ IF fence > 0
       THEN /\ gst_hold' = [gst_hold EXCEPT ![b] = @ - 1]
            /\ relUnrefs' = [relUnrefs EXCEPT ![b] = @ + 1]
       ELSE UNCHANGED <<gst_hold, relUnrefs>>
  /\ UNCHANGED notRelVars

\* buffer_immediate_release lines 350-367: as above, with the unref last and
\* unconditional.
BufferImmediateRelease(b) ==
  /\ buffer_release[b] # NULL
  /\ used_by_compositor' = [used_by_compositor EXCEPT ![b] = FALSE]
  /\ buffer_release' = [buffer_release EXCEPT ![b] = NULL]
  /\ relEvents' = [relEvents EXCEPT ![b] = @ + 1]
  /\ gst_hold' = [gst_hold EXCEPT ![b] = @ - 1]
  /\ relUnrefs' = [relUnrefs EXCEPT ![b] = @ + 1]
  /\ UNCHANGED notRelVars

InitRelease == InitWindow /\ gpc = "idle" /\ InitOther

NextRelease ==
  \/ \E b \in RelBufs : AttachBuffer(b)
  \/ \E b \in RelBufs : \E fence \in Fences : BufferFencedRelease(b, fence)
  \/ \E b \in RelBufs : BufferImmediateRelease(b)

SpecRelease == InitRelease /\ [][NextRelease]_vars

\* ---------------------------------------------------------------- claims

\* C1: at most one buffer commit of the video surface awaits its frame
\* callback: no buffer commit is issued between a buffer commit and the
\* frame_redraw_callback that answers it.
C1_AtMostOneInFlight == frame_pending <= 1

\* A second buffer is in flight after the first completed, and a further
\* render() call is blocked behind it.
C1_Witness ==
  /\ fpc = "alive"
  /\ connected
  /\ frame_pending = 1
  /\ Len(presented) = 2
  /\ spc = "wait"

\* C2: with render(A), render(B), render(C) issued back-to-back, each while
\* the previous buffer is still in flight, B is never presented and the call
\* for B returns false.
C2_NewestWinsStaging ==
  (fpc = "alive" /\ connected /\ backToBack /\ nRender = 3 /\ spc = "idle")
    => ((\A i \in 1..Len(presented) : presented[i] # 2) /\ 2 \in falseCalls)

\* C3: the number of commit sequences run by gst_wl_window_commit_buffer is
\* at most the number of render() calls.
C3_CommitsAtMostRenders == nCommit <= nRender

\* C4: a render() call made after the display connection was lost fails fast:
\* it does not wait on redraw_pending and does not return success.
C4_LostRenderFailsFast ==
  lostCall => (spc # "wait" /\ (spc = "idle" => nRender \in falseCalls))

\* C5: once every requested callback has run on a live window, the reference
\* count of every buffer passed to render() is back at its baseline.
C5_ReferencesBalanced ==
  (fpc = "alive" /\ connected /\ dpc = "idle" /\ sync_pending = 0
     /\ frame_pending = 0)
    => \A b \in Calls : refs[b] = 0

\* C6: a pending video info is never freed without having been applied and
\* never applied in two commits.
C6_InfoAppliedOnce == \A k \in Calls : infoSt[k] \notin {"discarded", "twice"}

\* C7: while configured is false no surface commit has carried state derived
\* from the render rectangle.
C7_NoRectangleBeforeConfigure ==
  ~configured => (area_applied = {} /\ video_applied = {})

\* C8: a set_render_rectangle call made while configured is false issues no
\* commit and stores its rectangle; once configured is true, any geometry
\* that then takes effect on a surface is that of the last rectangle set.
C8_LastRectangleAfterConfigure ==
  [][ /\ ((\E r \in Rects : SetRenderRectangle(r)) /\ ~configured)
           => /\ gpc' = "idle"
              /\ render_rectangle' = lastRect'
              /\ UNCHANGED <<area_applied, video_pending, video_applied>>
      /\ (configured /\ lastSet \in {"unconfigured", "unconfigured2"})
           => /\ (video_applied' # video_applied => video_applied' = {lastRect})
              /\ (area_applied' # area_applied => area_applied' = {lastRect})
    ]_vars

\* Two different rectangles were set while unconfigured; after the configure
\* event the surfaces carry the second one.
C8_Witness ==
  /\ configured
  /\ lastSet = "unconfigured2"
  /\ video_applied = {lastRect}
  /\ area_applied = {lastRect}

\* C9: a set_render_rectangle call with the rectangle already stored changes
\* no window state and issues no request; a call with another rectangle on a
\* configured window starts exactly one geometry update, which ends with one
\* commit of the area surface.
C9_SameRectangleIsNoOp ==
  [][ /\ \A r \in Rects :
           SetRenderRectangle(r) =>
             IF r = render_rectangle
               THEN UNCHANGED <<winVars, dpyVars, surfVars, gpc>>
               ELSE /\ render_rectangle' = r
                    /\ configured => gpc' = "geom_check"
      /\ UpdateGeometryCommit => area_applied' = area_pending
    ]_vars

\* The rectangle of a configured window was changed and then set again to
\* the same value.
C9_Witness ==
  /\ lastSet = "same"
  /\ configured
  /\ render_rectangle # 0
  /\ area_applied = {render_rectangle}

\* C10: a render() call woken by finalize never touches window_lock or
\* redraw_wait after finalize has cleared them.
C10_NoLockUseAfterClear == ~usedAfterClear

C12_ReleasedOnReturn == (spc = "idle" /\ sbuf # NULL) => refs[sbuf] = 0

\* C14: the buffers committed to the video surface appear in submission
\* order and none is committed twice.
C14_PresentedInOrder ==
  \A i, j \in 1..Len(presented) : i < j => presented[i] < presented[j]

\* Three buffers were submitted and all three committed.
C14_Witness == Len(presented) = 3 /\ fpc = "alive" /\ connected

\* C18: the map signal is emitted exactly by a buffer commit that finds the
\* area surface unmapped, once per such commit; a buffer commit on a mapped
\* area surface emits nothing, and a detach commit emits nothing and leaves
\* the area surface unmapped.
C18_MapOnUnmappedBufferCommit ==
  [][ LET commits == nCommit' # nCommit
          withBuffer == presented' # presented
      IN /\ (nMap' # nMap)
              => /\ commits /\ withBuffer /\ ~is_area_surface_mapped
                 /\ nMap' = nMap + 1
         /\ (commits /\ withBuffer)
              => /\ is_area_surface_mapped'
                 /\ nMap' = IF is_area_surface_mapped THEN nMap ELSE nMap + 1
         /\ (commits /\ ~withBuffer) => (~is_area_surface_mapped' /\ nMap' = nMap)
         /\ (~commits /\ fpc = "alive")
              => is_area_surface_mapped' = is_area_surface_mapped
    ]_vars

\* The signal was emitted by the first buffer commit, a second buffer commit
\* emitted nothing, and a detach commit then cleared the mapped flag.
C18_Witness ==
  /\ nMap = 1
  /\ Len(presented) = 2
  /\ nCommit = 3
  /\ ~is_area_surface_mapped
\* C13: every release event handled for a buffer, fenced with any fence
\* value or immediate, has released the hold on the media buffer exactly
\* once, cleared used_by_compositor and destroyed the release object.
C13_ReleaseHandledOnce ==
  \A b \in RelBufs :
    /\ relUnrefs[b] = relEvents[b]
    /\ gst_hold[b] = IF used_by_compositor[b] THEN 1 ELSE 0
    /\ used_by_compositor[b] = (buffer_release[b] # NULL)
\* C15: after set_source_crop with a buffer without crop metadata the stored
\* source width is the unset value -1, whatever crop was stored before;
\* after a call with crop metadata the stored crop is that rectangle.
C15_CropStoredOrReset ==
  /\ cropCall = "nocrop" => src_width = SrcWidthUnset
  /\ cropCall = "crop" => <<src_x, src_y, src_width, src_height>> = cropArg

\* A crop had been stored by an earlier buffer (its x is still there) and
\* a buffer without crop metadata then reset the source width.
C15_Witness == cropCall = "nocrop" /\ src_x = 1 /\ src_width = SrcWidthUnset
\* C16: a toplevel window uses one shell variant, chosen by the constructor
\* in the order xdg shell, then the other shells the implementation knows,
\* and never changed afterwards; without any shell global the constructor
\* fails and returns no window.
C16_OneShellVariant ==
  [][ /\ shell # "unset" => shell' = shell
      /\ shell' # shell => gpc = "new"
      /\ (gpc = "new" /\ gpc' # "new")
           => /\ shell' = "xdg" => has_xdg_wm_base
              /\ has_xdg_wm_base => shell' \in {"xdg", "unset"}
              /\ shell' = "wl_shell" => has_wl_shell
              /\ shell' = "fullscreen_shell" => has_fullscreen_shell
              /\ (shell' = "unset") = (gpc' = "failed")
              /\ (~has_xdg_wm_base /\ ~has_wl_shell /\ ~has_fullscreen_shell)
                   => gpc' = "failed"
    ]_vars

\* The display offers the xdg shell and the fullscreen shell; the window
\* was made with the xdg shell and has been used since.
C16_Witness ==
  /\ shell = "xdg"
  /\ has_fullscreen_shell
  /\ gpc = "idle"
  /\ lastSet = "configured"

\* C17: the xdg configure handshake of gst_wl_window_new_toplevel always
\* ends; it ends with the window created, after the configure event or
\* after the timeout, and the timeout leaves configured false.
C17_HandshakeTerminates ==
  /\ (gpc = "handshake") ~> (gpc = "idle")
  /\ [][ (gpc = "handshake" /\ gpc' # "handshake")
           => (gpc' = "idle" /\ configured' = configured) ]_vars

\* The handshake timed out: the window exists and is not configured.
C17_Witness == shell = "xdg" /\ gpc = "idle" /\ ~configured
\* C19: a setter called again with the argument of the call before it
\* changes no window state and starts no geometry update, so no further
\* surface commit is issued.
C19_SettersIdempotent ==
  [][ /\ \A r \in Rects :
           (setCall = "render_rectangle" /\ lastRect = r
              /\ SetRenderRectangle(r))
             => (UNCHANGED <<winVars, surfVars, propVars>> /\ gpc' = gpc)
      /\ \A method \in Methods :
           (setCall = "rotate_method"
              /\ buffer_transform = OutputTransformFromOrientationMethod(method)
              /\ SetRotateMethod(method))
             => (UNCHANGED <<winVars, surfVars, propVars>> /\ gpc' = gpc)
      /\ \A n \in Scales :
           (setCall = "scale" /\ scale = n /\ SetScale(n))
             => (UNCHANGED <<winVars, surfVars, propVars>> /\ gpc' = gpc)
      /\ \A f \in BOOLEAN :
           (setCall = "fullscreen" /\ xdg_fullscreen = f
              /\ EnsureFullscreen(f))
             => (UNCHANGED <<winVars, surfVars, propVars>> /\ gpc' = gpc)
    ]_vars
\* C20: a toplevel window of the sink is destroyed on READY to NULL and the
\* display is released with it; a window embedded in the application's
\* surface, and its display, are never given up by a state change.
C20_WindowLifetime ==
  [][ /\ (sink_window = "toplevel" /\ sink_window' # "toplevel")
           => (sink_state = "READY" /\ sink_state' = "NULL"
                 /\ sink_display' = "none")
      /\ (sink_window = "toplevel" /\ sink_state = "READY"
             /\ sink_state' = "NULL")
           => (sink_window' = "none" /\ sink_display' = "none")
      /\ sink_window = "embedded"
           => (sink_window' = "embedded" /\ sink_display' = sink_display)
    ]_vars
\* C21: on a display that delivers every requested callback, a render()
\* call that waits on redraw_pending eventually returns.
C21_RenderReturns == (spc = "wait") ~> (spc = "idle")
\* C22: every step of render() and of the callbacks that writes next_buffer,
\* staged_buffer, redraw_pending, clear_window or the pending video info is
\* made with window_lock held.
C22_WindowLockProtects ==
  [][ (<<next_buffer, staged_buffer, redraw_pending, clear_window,
         next_video_info>>' #
       <<next_buffer, staged_buffer, redraw_pending, clear_window,
         next_video_info>>)
        => HoldsWindowLock ]_vars
\* C23: the dispatch thread is never inside the protocol sequence of a
\* buffer commit (from the sync-mode resize for a new video info to the end
\* of the commit) while the application thread is inside the sequence of a
\* geometry update (between taking and releasing commit_lock).
C23_CommitSequencesExclusive ==
  ~(dpc = "commit_body" /\ dinfo # NULL /\ gpc = "geom_commit"
      /\ commit_lock = "G")
\* C24: gst_wl_window_update_geometry unlocks commit_lock exactly when it
\* holds it: at the end of the update the video size is known (the unlock
\* is executed) if and only if the application thread took the lock.
C24_UnlockOnlyByHolder ==
  [][ UpdateGeometryCommit => ((scaled_width # 0) = (commit_lock = "G")) ]_vars
\* C25: while the dispatch thread is inside gst_wl_window_commit_buffer it
\* does not hold window_lock, so a render() call that is due can take the
\* lock and run.
C25_CommitRunsUnlocked ==
  dpc \in {"commit_enter", "commit_body"}
    => /\ window_lock = "none"
       /\ (spc = "idle" /\ nRender < MaxRenders)
            => ENABLED (\E arg \in RenderArgs : RenderCall(arg[1], arg[2]))

\* The commit sequence of the first buffer is in progress, entered with
\* window_lock free, and a second render() call has been through its
\* window_lock section and waits for the frame callback.
C25_Witness ==
  /\ dpc = "commit_body"
  /\ nRender = 2
  /\ spc = "wait"
  /\ nCommit = 0
\* C26: a buffer that next_buffer or staged_buffer refers to still has the
\* reference render() took for it.
C26_SlotsHoldReference ==
  /\ next_buffer # NULL => refs[next_buffer] >= 1
  /\ staged_buffer # NULL => refs[staged_buffer] >= 1
\* C27: the video info of the k-th render() call is applied by the commit
\* that presents the buffer of that call, not by the commit of another
\* buffer.
C27_InfoAppliedWithItsBuffer ==
  (dpc = "commit_body" /\ dinfo # NULL) => dbuf = dinfo
\* C28: once the window is finalized and no render() call is in progress,
\* no buffer reference taken by render() is still held.
C28_FinalizeReleasesAll ==
  (fpc = "freed" /\ spc = "idle" /\ ~usedAfterClear)
    => \A b \in Calls : refs[b] = 0
C30_ClearWindowSticky ==
  [][ LET commits == nCommit' # nCommit
          detach == commits /\ presented' = presented
      IN /\ nullCall' # nullCall => clear_window'
         /\ (clear_window /\ ~clear_window') => detach
         /\ detach => (~clear_window' /\ ~is_area_surface_mapped')
         /\ presented' # presented => presented'[Len(presented')] > nullCall
    ]_vars

\* Buffer 1 was presented, render (NULL) then set clear_window, and the
\* detach commit has cleared it and unmapped the area surface.
C30_Witness ==
  /\ nullCall = 2
  /\ presented = <<1>>
  /\ ~clear_window
  /\ ~is_area_surface_mapped
  /\ fpc = "alive"
\* C31: whenever neither a geometry update nor a buffer commit is inside
\* its protocol sequence, the video subsurface is in desync mode.
C31_DesyncWhenIdle ==
  (dpc # "commit_body" /\ gpc # "geom_commit") => video_sync_mode = "desync"

\* A buffer commit with a new video info and a geometry update on the sized
\* window have both set sync mode and both finished.
C31_Witness ==
  /\ dpc = "idle"
  /\ gpc = "idle"
  /\ scaled_width # 0
  /\ video_applied = {render_rectangle}
  /\ render_rectangle # 0
  /\ lastSet = "configured"
  /\ Len(presented) = 1
  /\ video_sync_mode = "desync"

\* C32: while gst_wl_window_new_toplevel, called by show_frame with the
\* render lock held, waits for the compositor's answer (a toplevel-configure
\* followed by a surface-configure), the dispatch thread can always go on
\* towards the acknowledgement, whatever size the toplevel-configure
\* carries: the handshake never depends on the timeout because the
\* configure handler waits for the render lock.
C32_AckNeverBlocked ==
  (gpc = "handshake" /\ ~configured /\ connected /\ cfg_state # "none")
    => ENABLED DispatchStep

\* C33: the sink's redraw_pending is set only while a frame callback is
\* outstanding on a surface of a window that still exists; in particular it
\* is clear once the toplevel window has been destroyed on PAUSED->READY, so
\* that a later show_frame does not wait for a callback that cannot come.
C33_RedrawPendingHasCallback ==
  sink_redraw_pending => (sink_frame_cb /\ sink_window # "none")

\* C34: a fullscreen request is issued only on a shell object the window
\* created; for a window without toplevel role (embedded in an application
\* surface, or presented by a fullscreen-only shell) no request is issued on
\* a NULL handle.
C34_NoRequestOnNullHandle == fs_request # "null"

\* C35: once gst_wl_window_set_source_crop has been called with a buffer
\* that has no crop metadata, the next gst_wl_window_resize_video_surface
\* leaves no source rectangle in effect on the video viewport, whatever
\* crop an earlier buffer had put there.
C35_NoCropClearsViewportSource ==
  [][(cropCall = "nocrop" /\ has_viewporter
        /\ \E commit \in BOOLEAN : ResizeVideoSurface(commit))
       => viewport_source' = "unset"]_vars

C37_ScaleOneOrTwo == gpc \notin {"init", "crashed"} => scale \in {1, 2}

====
